---- MODULE Spec2Model ----
(***************************************************************************)
(* Verification model of the content-extraction heuristics of the scraper  *)
(* (src/scraper/news_scraper.py, src/scraper/scrapper.py and, under        *)
(* src/scraper/scrapers-file/, detail.py, news_scraper.py, ipo_scraper.py).*)
(*                                                                         *)
(* A Python str is modelled as a sequence of characters; a character is a  *)
(* one-symbol string.  The few non-ASCII characters the code names are     *)
(* written NBSP (\xa0), RSQUO (U+2019), RUPEE, and A_CIRC, LOW9, SUP1 (the *)
(* three characters of the mis-encoded rupee sign).                        *)
(***************************************************************************)
EXTENDS Integers, Sequences, FiniteSets, TLC

VARIABLES
    \* --- the validity classifier as the extraction passes call it
    raw_title, summary, link, title, valid, vpc,
    \* --- run_super_scraper
    selenium, site_idx, site_articles, final_news, seen_articles, unique_count,
    n_scraped, mpc,
    \* --- validate_date / clean_date on one string
    date_str, date_ok, date_clean, dpc,
    \* --- extract_date on one page
    page, date_result, epc,
    \* --- extract_category
    cat_page, cat_url, category, cpc,
    \* --- extract_structured_tables
    table, tables, tpc,
    \* --- extract_content_sections
    elements, sections, spc,
    \* --- extract_key_value_pairs
    labels, key_values, kpc,
    \* --- extract_meaningful_links
    anchors, base_url, links, lpc,
    \* --- the strategies of news_scraper.py on one candidate
    strategy, cand, sel_summary, emitted, apc,
    \* --- the three clean_text normalizers on one string
    raw_text, cleaner, cleaned_once, cleaned_twice, xpc,
    \* --- is_valid_article called on its own
    arg_title, arg_summary, arg_link, verdict, ipc,
    \* --- scrape_all_tabs
    tab_base, nav_tabs, tab_links, scraped_tabs, qpc,
    \* --- scrape_rss_feed
    feed_items, max_articles, item_idx, page_failed, rss_articles, rpc,
    \* --- one extraction pass over the candidates of a page
    pass_by, pass_cands, pass_idx, seen_titles, pass_out, ppc,
    \* --- the IPO scraper run
    download_dir, ipo_clock, mainboard_success, sme_success, mainboard_json, sme_json, ipo_pc,
    \* --- extract_content_sections on a document with nested blocks
    document, found_elements, nested_sections, npc

vars == << raw_title, summary, link, title, valid, vpc,
           selenium, site_idx, site_articles, final_news, seen_articles, unique_count,
           n_scraped, mpc,
           date_str, date_ok, date_clean, dpc,
           page, date_result, epc,
           cat_page, cat_url, category, cpc,
           table, tables, tpc,
           elements, sections, spc,
           labels, key_values, kpc,
           anchors, base_url, links, lpc,
           strategy, cand, sel_summary, emitted, apc,
           raw_text, cleaner, cleaned_once, cleaned_twice, xpc,
           arg_title, arg_summary, arg_link, verdict, ipc,
           tab_base, nav_tabs, tab_links, scraped_tabs, qpc,
           feed_items, max_articles, item_idx, page_failed, rss_articles, rpc,
           pass_by, pass_cands, pass_idx, seen_titles, pass_out, ppc,
           download_dir, ipo_clock, mainboard_success, sme_success, mainboard_json, sme_json, ipo_pc,
           document, found_elements, nested_sections, npc >>

(***************************************************************************)
(* Python str operations, on sequences of characters.                      *)
(***************************************************************************)
UpperLetters ==
    << "A", "B", "C", "D", "E", "F", "G", "H", "I", "J", "K", "L", "M",
       "N", "O", "P", "Q", "R", "S", "T", "U", "V", "W", "X", "Y", "Z" >>

LowerLetters ==
    << "a", "b", "c", "d", "e", "f", "g", "h", "i", "j", "k", "l", "m",
       "n", "o", "p", "q", "r", "s", "t", "u", "v", "w", "x", "y", "z" >>

UpperSet == { UpperLetters[i] : i \in 1..26 }

LowerSet == { LowerLetters[i] : i \in 1..26 }

DigitSet == { "0", "1", "2", "3", "4", "5", "6", "7", "8", "9" }

\* faulty variant of SpaceSet: only the ASCII whitespace
SpaceSet_Ascii == { " ", "\n", "\t" }

\* str.isspace() of one character (the non-breaking space is whitespace)
SpaceSet == { " ", "\n", "\t", "NBSP" }

LowerOf == [ c \in UpperSet |-> LowerLetters[CHOOSE i \in 1..26 : UpperLetters[i] = c] ]

UpperOf == [ c \in LowerSet |-> UpperLetters[CHOOSE i \in 1..26 : LowerLetters[i] = c] ]

DigitValue ==
    [ c \in DigitSet |->
        CASE c = "0" -> 0 [] c = "1" -> 1 [] c = "2" -> 2 [] c = "3" -> 3
          [] c = "4" -> 4 [] c = "5" -> 5 [] c = "6" -> 6 [] c = "7" -> 7
          [] c = "8" -> 8 [] c = "9" -> 9 ]

CharLower(c) == IF c \in UpperSet THEN LowerOf[c] ELSE c

CharUpper(c) == IF c \in LowerSet THEN UpperOf[c] ELSE c

IsLetter(c) == c \in UpperSet \/ c \in LowerSet

IsDigit(c) == c \in DigitSet

IsSpace(c) == c \in SpaceSet

\* s.lower()
str_lower(s) == [ i \in 1..Len(s) |-> CharLower(s[i]) ]

\* s.isupper(): at least one cased character and no lowercase one
str_isupper(s) ==
    /\ \E i \in 1..Len(s) : s[i] \in UpperSet
    /\ \A i \in 1..Len(s) : s[i] \notin LowerSet

\* s.strip()
str_strip(s) ==
    LET keep == { i \in 1..Len(s) : ~IsSpace(s[i]) }
    IN  IF keep = {} THEN << >>
        ELSE SubSeq(s, CHOOSE i \in keep : \A j \in keep : i <= j,
                       CHOOSE i \in keep : \A j \in keep : j <= i)

\* s.strip(ch) for one character ch
str_strip_char(s, ch) ==
    LET keep == { i \in 1..Len(s) : s[i] # ch }
    IN  IF keep = {} THEN << >>
        ELSE SubSeq(s, CHOOSE i \in keep : \A j \in keep : i <= j,
                       CHOOSE i \in keep : \A j \in keep : j <= i)

\* s.startswith(prefix) at offset i (0-based): s[i:i+len(sub)] == sub
MatchAt(sub, s, i) ==
    /\ i + Len(sub) <= Len(s)
    /\ \A j \in 1..Len(sub) : s[i + j] = sub[j]

\* sub in s
Contains(sub, s) == \E i \in 0..(Len(s) - Len(sub)) : MatchAt(sub, s, i)

\* s.endswith(suffix)
EndsWith(suffix, s) == Len(suffix) <= Len(s) /\ MatchAt(suffix, s, Len(s) - Len(suffix))

\* s.split(): the maximal runs of non-whitespace characters, in order
RECURSIVE SplitFrom(_, _)
SplitFrom(s, i) ==
    IF i > Len(s) THEN << >>
    ELSE IF IsSpace(s[i]) THEN SplitFrom(s, i + 1)
    ELSE LET stops == { j \in i..Len(s) : IsSpace(s[j]) }
             e == IF stops = {} THEN Len(s) + 1
                  ELSE CHOOSE j \in stops : \A k \in stops : j <= k
         IN  << SubSeq(s, i, e - 1) >> \o SplitFrom(s, e)

str_split(s) == SplitFrom(s, 1)

\* s.split(ch) for one character ch: the pieces between the separators, empty ones kept
RECURSIVE SplitCharFrom(_, _, _)
SplitCharFrom(s, ch, i) ==
    LET stops == { j \in i..Len(s) : s[j] = ch }
    IN  IF stops = {} THEN << SubSeq(s, i, Len(s)) >>
        ELSE LET e == CHOOSE j \in stops : \A k \in stops : j <= k
             IN  << SubSeq(s, i, e - 1) >> \o SplitCharFrom(s, ch, e + 1)

str_split_char(s, ch) == SplitCharFrom(s, ch, 1)

\* sep.join(parts)
RECURSIVE str_join(_, _)
str_join(sep, parts) ==
    IF Len(parts) = 0 THEN << >>
    ELSE IF Len(parts) = 1 THEN parts[1]
    ELSE parts[1] \o sep \o str_join(sep, Tail(parts))

\* s.replace(old, new), leftmost non-overlapping occurrences, old non-empty
RECURSIVE ReplaceFrom(_, _, _, _)
ReplaceFrom(s, old, new, i) ==
    IF i > Len(s) THEN << >>
    ELSE IF MatchAt(old, s, i - 1) THEN new \o ReplaceFrom(s, old, new, i + Len(old))
    ELSE << s[i] >> \o ReplaceFrom(s, old, new, i + 1)

\* one character replaced by one character is a replacement position by position
str_replace(s, old, new) ==
    IF Len(old) = 1 /\ Len(new) = 1
    THEN [ i \in 1..Len(s) |-> IF s[i] = old[1] THEN new[1] ELSE s[i] ]
    ELSE ReplaceFrom(s, old, new, 1)

\* s.title(): a letter is upper-cased when the character before it is not a letter,
\* lower-cased otherwise
str_title(s) ==
    [ i \in 1..Len(s) |->
        IF ~IsLetter(s[i]) THEN s[i]
        ELSE IF i > 1 /\ IsLetter(s[i - 1]) THEN CharLower(s[i])
        ELSE CharUpper(s[i]) ]

\* s[:n]
str_prefix(s, n) == SubSeq(s, 1, IF Len(s) < n THEN Len(s) ELSE n)

(***************************************************************************)
(* news_scraper.py: the keyword sets and the validity classifier.          *)
(***************************************************************************)
NOISE_KEYWORDS ==
    { <<"s", "u", "b", "s", "c", "r", "i", "b", "e">>,
      <<"n", "e", "w", "s", "l", "e", "t", "t", "e", "r">>,
      <<"d", "o", "w", "n", "l", "o", "a", "d">>,
      <<"a", "p", "p">>,
      <<"c", "o", "o", "k", "i", "e">>,
      <<"p", "r", "i", "v", "a", "c", "y", " ", "p", "o", "l", "i", "c", "y">>,
      <<"t", "e", "r", "m", "s", " ", "o", "f", " ", "s", "e", "r", "v", "i", "c", "e">>,
      <<"c", "o", "p", "y", "r", "i", "g", "h", "t">>,
      <<"a", "l", "l", " ", "r", "i", "g", "h", "t", "s", " ", "r", "e", "s", "e", "r", "v", "e", "d">>,
      <<"m", "o", "s", "t", " ", "w", "a", "t", "c", "h", "e", "d">>,
      <<"t", "r", "e", "n", "d", "i", "n", "g", " ", "n", "o", "w">>,
      <<"l", "a", "t", "e", "s", "t", " ", "n", "e", "w", "s">>,
      <<"a", "l", "s", "o", " ", "i", "n", " ", "n", "e", "w", "s">>,
      <<"m", "o", "r", "e", " ", "t", "o", " ", "e", "x", "p", "l", "o", "r", "e">>,
      <<"r", "e", "a", "d", " ", "m", "o", "r", "e">>,
      <<"c", "l", "i", "c", "k", " ", "h", "e", "r", "e">>,
      <<"a", "d", "v", "e", "r", "t", "i", "s", "e">>,
      <<"c", "o", "n", "t", "a", "c", "t", " ", "u", "s">>,
      <<"a", "b", "o", "u", "t", " ", "u", "s">>,
      <<"f", "o", "l", "l", "o", "w", " ", "u", "s">>,
      <<"s", "o", "c", "i", "a", "l", " ", "m", "e", "d", "i", "a">>,
      <<"l", "o", "g", "i", "n">>,
      <<"s", "i", "g", "n", " ", "u", "p">>,
      <<"r", "e", "g", "i", "s", "t", "e", "r">>,
      <<"w", "a", "i", "t", " ", "f", "o", "r", " ", "i", "t">>,
      <<"c", "o", "n", "g", "r", "a", "t", "u", "l", "a", "t", "i", "o", "n", "s">>,
      <<"y", "o", "u", " ", "a", "r", "e", " ", "n", "o", "w", " ", "s", "u", "b", "s", "c", "r", "i", "b", "e", "d">>,
      <<"s", "t", "o", "c", "k", " ", "r", "e", "c", "o", "m", "m", "e", "n", "d", "a", "t", "i", "o", "n", "s">>,
      <<"b", "u", "y", "/", "s", "e", "l", "l", " ", "s", "i", "g", "n", "a", "l", "s">>,
      <<"m", "a", "r", "k", "e", "t", " ", "c", "a", "l", "e", "n", "d", "a", "r">>,
      <<"f", "i", "n", "d", " ", "y", "o", "u", "r", " ", "f", "i", "r", "s", "t">>,
      <<"b", "o", "a", "r", "d", " ", "m", "e", "e", "t", "i", "n", "g">>,
      <<"q", "u", "a", "r", "t", "e", "r", "l", "y", " ", "r", "e", "s", "u", "l", "t", "s">> }

NAVIGATION_TITLES ==
    { <<"s", "t", "o", "c", "k", " ", "r", "e", "c", "o", "m", "m", "e", "n", "d", "a", "t", "i", "o", "n", "s">>,
      <<"b", "u", "y", "/", "s", "e", "l", "l", " ", "s", "i", "g", "n", "a", "l", "s">>,
      <<"m", "a", "r", "k", "e", "t", " ", "c", "a", "l", "e", "n", "d", "a", "r">>,
      <<"b", "s", "e", " ", "a", "n", "n", "o", "u", "n", "c", "e", "m", "e", "n", "t">>,
      <<"f", "i", "n", "d", " ", "y", "o", "u", "r", " ", "f", "i", "r", "s", "t">>,
      <<"l", "a", "t", "e", "s", "t", " ", "n", "e", "w", "s">>,
      <<"t", "r", "e", "n", "d", "i", "n", "g">>,
      <<"m", "o", "s", "t", " ", "w", "a", "t", "c", "h", "e", "d">>,
      <<"a", "l", "s", "o", " ", "i", "n", " ", "n", "e", "w", "s">>,
      <<"m", "o", "r", "e", " ", "t", "o", " ", "e", "x", "p", "l", "o", "r", "e">>,
      <<"n", "e", "w", "s", "n", "e", "w", "s">>,
      <<"c", "u", "r", "r", "e", "n", "c", "y", " ", "c", "o", "n", "v", "e", "r", "t", "e", "r">>,
      <<"c", "a", "l", "e", "n", "d", "a", "r", " ", "s", "p", "r", "e", "a", "d">>,
      <<"d", "i", "g", "i", "t", "a", "l", " ", "r", "e", "a", "l", " ", "e", "s", "t", "a", "t", "e">>,
      <<"i", "n", "d", "i", "a", " ", "i", "n", "c", "'", "s", " ", "s", "c", "o", "r", "e", "c", "a", "r", "d">>,
      <<"c", "r", "y", "p", "t", "o", "c", "u", "r", "r", "e", "n", "c", "y", "b", "i", "t", "c", "o", "i", "n">>,
      <<"c", "u", "r", "r", "e", "n", "c", "i", "e", "s", "f", "o", "r", "e", "x">>,
      <<"c", "o", "m", "m", "o", "d", "i", "t", "y", "b", "u", "l", "l", "i", "o", "n">>,
      <<"i", "p", "o", "s", "t", "a", "r", "t", "u", "p", "s">> }

GENERIC_SUMMARIES ==
    { <<"t", "r", "e", "n", "d", "i", "n", "g", " ", "i", "n", " ", "m", "a", "r", "k", "e", "t", "s">>,
      <<"q", "u", "i", "c", "k", " ", "l", "i", "n", "k", "s">>,
      <<"d", "i", "s", "c", "o", "v", "e", "r", " ", "b", "o", "n", "d", "s", " ", "t", "h", "a", "t", " ", "m", "e", "e", "t">>,
      <<"b", "o", "a", "r", "d", " ", "m", "e", "e", "t", "i", "n", "g">>,
      <<"q", "u", "a", "r", "t", "e", "r", "l", "y", " ", "r", "e", "s", "u", "l", "t", "s">>,
      <<"d", "o", "w", "n", "l", "o", "a", "d", " ", "t", "h", "e", " ", "m", "i", "n", "t", " ", "a", "p", "p">>,
      <<"r", "e", "a", "d", " ", "p", "r", "e", "m", "i", "u", "m", " ", "s", "t", "o", "r", "i", "e", "s">>,
      <<"g", "o", "t", " ", "a", " ", "c", "o", "n", "f", "i", "d", "e", "n", "t", "i", "a", "l", " ", "n", "e", "w", "s", " ", "t", "i", "p">>,
      <<"s", "u", "b", "s", "c", "r", "i", "b", "e">>,
      <<"d", "o", "w", "n", "l", "o", "a", "d", " ", "t", "h", "e", " ", "a", "p", "p">>,
      <<"r", "e", "a", "d", " ", "p", "r", "e", "m", "i", "u", "m">>,
      <<"s", "i", "g", "n", " ", "u", "p">>,
      <<"l", "o", "g", " ", "i", "n">> }

TRIVIAL_TITLES ==
    { <<"n", "e", "w", "s">>,
      <<"n", "e", "w", "s", "n", "e", "w", "s">>,
      <<"l", "a", "t", "e", "s", "t">>,
      <<"m", "o", "r", "e">>,
      <<"r", "e", "a", "d">>,
      <<"w", "a", "t", "c", "h">> }

SECTION_HEADER_TITLES ==
    { <<"i", "n", "d", "i", "a", " ", "n", "e", "w", "s">>,
      <<"e", "c", "o", "n", "o", "m", "y", " ", "n", "e", "w", "s">>,
      <<"p", "o", "l", "i", "t", "i", "c", "s", " ", "n", "e", "w", "s">>,
      <<"s", "p", "o", "r", "t", "s", " ", "n", "e", "w", "s">>,
      <<"s", "c", "i", "e", "n", "c", "e", " ", "n", "e", "w", "s">>,
      <<"d", "e", "f", "e", "n", "c", "e", " ", "n", "e", "w", "s">>,
      <<"i", "n", "t", "e", "r", "n", "a", "t", "i", "o", "n", "a", "l", " ", "n", "e", "w", "s">>,
      <<"c", "o", "m", "p", "a", "n", "y", " ", "n", "e", "w", "s">>,
      <<"m", "a", "r", "k", "e", "t", " ", "c", "a", "l", "e", "n", "d", "a", "r">>,
      <<"s", "t", "o", "c", "k", " ", "r", "e", "c", "o", "m", "m", "e", "n", "d", "a", "t", "i", "o", "n", "s">> }

FILLER_WORDS ==
    { <<"t", "r", "e", "n", "d", "i", "n", "g">>,
      <<"l", "i", "n", "k", "s">>,
      <<"d", "i", "s", "c", "o", "v", "e", "r">>,
      <<"f", "i", "n", "d">> }

section_indicators ==
    { <<"b", "i", "t", "c", "o", "i", "n", ",", " ", "b", "l", "o", "c", "k", "c", "h", "a", "i", "n">>,
      <<"f", "o", "r", "e", "x", " ", "&", " ", "f", "u", "t", "u", "r", "e", "s">>,
      <<"s", "t", "a", "r", "t", "u", "p", "s", ",", " ", "g", "r", "e", "y", " ", "m", "a", "r", "k", "e", "t">>,
      <<"b", "u", "l", "l", "i", "o", "n", ",", " ", "b", "a", "s", "e", " ", "m", "e", "t", "a", "l", "s">>,
      <<"a", "l", "l", " ", "e", "l", "s", "e">>,
      <<"s", "c", "o", "r", "e", "c", "a", "r", "d">> }

MIN_TITLE_LEN == 15

MIN_SUMMARY_LEN == 20

SHORT_SUMMARY_LEN == 30

\* clean_text of news_scraper.py
clean_text(text) ==
    IF Len(text) = 0 THEN << >>
    ELSE LET joined == str_join(<< " " >>, str_split(text))
             fixed  == str_replace(
                         str_replace(
                           str_replace(joined, << "A_CIRC", "LOW9", "SUP1" >>, << "RUPEE" >>),
                           << "NBSP" >>, << " " >>),
                         << "RSQUO" >>, << "'" >>)
         IN  str_strip(fixed)

\* faulty variant of TitleTooShort: the minimum length is not enforced
TitleTooShort_NoMinimum(t) == Len(t) = 0

\* line 60: not title or len(title) < 15
TitleTooShort(t) == Len(t) = 0 \/ Len(t) < MIN_TITLE_LEN

\* faulty variant of IsNavigationTitle: an entry of the list is lost
IsNavigationTitle_EntryLost(title_lower) ==
    title_lower \in NAVIGATION_TITLES \ { <<"d", "i", "g", "i", "t", "a", "l", " ", "r", "e", "a", "l", " ", "e", "s", "t", "a", "t", "e">> }

\* line 67: title_lower in NAVIGATION_TITLES
IsNavigationTitle(title_lower) == title_lower \in NAVIGATION_TITLES

\* lines 71-73: a noise keyword in the lowered title or the lowered summary
HasNoiseKeyword(title_lower, summary_lower) ==
    \E keyword \in NOISE_KEYWORDS :
        Contains(keyword, title_lower) \/ Contains(keyword, summary_lower)

\* line 76
IsTrivialTitle(title_lower) == title_lower \in TRIVIAL_TITLES

\* lines 80-82
IsSectionHeaderTitle(title_lower) == title_lower \in SECTION_HEADER_TITLES

\* line 86: len(title.split()) <= 2 and not any(char.isdigit() for char in title)
FewWordsNoDigit(t) ==
    /\ Len(str_split(t)) <= 2
    /\ ~ \E i \in 1..Len(t) : IsDigit(t[i])

\* line 88 indexes title_lower[0]: with an empty title_lower (a title of whitespace
\* only) that raises IndexError, as title_lower.isupper() is false before it
CompanyNameRaises(t, title_lower) ==
    /\ FewWordsNoDigit(t)
    /\ ~str_isupper(title_lower)
    /\ Len(title_lower) = 0

\* lines 86-89: the tests of line 88 are made on title_lower, the lowered title
LooksLikeCompanyName(t, title_lower) ==
    /\ FewWordsNoDigit(t)
    /\ \/ str_isupper(title_lower)
       \/ /\ title_lower[1] \in UpperSet
          /\ ~ \E i \in 1..Len(t) : t[i] \in { ":", "-", "?", "!" }

\* faulty variant of NoLinkNoSummary: or in place of and
NoLinkNoSummary_Or(s, l) ==
    Len(l) = 0 \/ (Len(s) = 0 \/ Len(s) < MIN_SUMMARY_LEN)

\* line 92: not link and (not summary or len(summary) < 20)
NoLinkNoSummary(s, l) ==
    Len(l) = 0 /\ (Len(s) = 0 \/ Len(s) < MIN_SUMMARY_LEN)

\* lines 96-101
IsGenericSummary(s, summary_lower) ==
    /\ Len(s) # 0
    /\ \/ \E gs \in GENERIC_SUMMARIES : Contains(gs, summary_lower)
       \/ /\ Len(s) < SHORT_SUMMARY_LEN
          /\ \E word \in FILLER_WORDS : Contains(word, summary_lower)

\* lines 105-108
LooksLikeNavigation(t) ==
    /\ Len(t) # 0
    /\ str_isupper(t) \/ Len(str_split(t)) <= 2
    /\ ~ \E i \in 1..Len(t) : t[i] \in { ":", "-", "?", "!", "," }

\* lines 111-114
HasSectionIndicator(title_lower) ==
    \E indicator \in section_indicators : Contains(indicator, title_lower)

\* is_valid_article(title, summary, link): "True", "False", or the exception raised.
\* An absent summary or link (None or "") is the empty sequence.
is_valid_article(t, s, l) ==
    IF TitleTooShort(t) THEN "False"
    ELSE LET title_lower   == str_strip(str_lower(t))
             summary_lower == str_lower(s)
         IN  IF IsNavigationTitle(title_lower) THEN "False"
             ELSE IF HasNoiseKeyword(title_lower, summary_lower) THEN "False"
             ELSE IF IsTrivialTitle(title_lower) THEN "False"
             ELSE IF IsSectionHeaderTitle(title_lower) THEN "False"
             ELSE IF CompanyNameRaises(t, title_lower) THEN "IndexError"
             ELSE IF LooksLikeCompanyName(t, title_lower) THEN "False"
             ELSE IF NoLinkNoSummary(s, l) THEN "False"
             ELSE IF IsGenericSummary(s, summary_lower) THEN "False"
             ELSE IF LooksLikeNavigation(t) THEN "False"
             ELSE IF HasSectionIndicator(title_lower) THEN "False"
             ELSE "True"

(***************************************************************************)
(* The classifier as an extraction pass calls it (news_scraper.py lines    *)
(* 241 and 297): the title is the clean_text of the heading's text.        *)
(***************************************************************************)
MaxTitleParts == 2

\* fragments raw titles are put together from (joined by single spaces)
TitleFragments ==
    { <<"R", "e", "l", "i", "a", "n", "c", "e", ",">>,
      <<"I", "n", "d", "u", "s", "t", "r", "i", "e", "s">>,
      <<"R", "E", "L", "I", "A", "N", "C", "E", ":">>,
      <<"I", "N", "D", "U", "S", "T", "R", "I", "E", "S">>,
      <<"D", "i", "g", "i", "t", "a", "l", " ", "R", "e", "a", "l", " ", "E", "s", "t", "a", "t", "e">>,
      <<"N", "i", "f", "t", "y", " ", "u", "p", " ", "2", "%">>,
      <<"l", "a", "t", "e", "s", "t", " ", "n", "e", "w", "s">>,
      <<"S", "c", "o", "r", "e", "c", "a", "r", "d">>,
      <<"I", "n", "d", "i", "a", " ", "N", "e", "w", "s">>,
      <<" ", " ", "N", "i", "f", "t", "y", " ", " ", " ", "e", "n", "d", "s", " ", " ">>,
      <<"W", "a", "t", "c", "h">> }

\* summaries as the passes hand them over (normalized, or empty for none)
SummaryInputs ==
    { <<>>,
      <<"Q", "u", "i", "c", "k", " ", "l", "i", "n", "k", "s">>,
      <<"S", "t", "o", "c", "k", "s", " ", "f", "e", "l", "l">>,
      <<"D", "i", "s", "c", "o", "v", "e", "r", " ", "t", "o", "p", " ", "g", "a", "i", "n", "e", "r", "s", " ", "h", "e", "r", "e">>,
      <<"S", "t", "o", "c", "k", "s", " ", "f", "e", "l", "l", " ", "o", "n", " ", "M", "o", "n", "d", "a", "y">>,
      <<"S", "h", "a", "r", "e", "s", " ", "r", "o", "s", "e", " ", "s", "h", "a", "r", "p", "l", "y", " ", "a", "f", "t", "e", "r", " ", "s", "t", "r", "o", "n", "g", " ", "e", "a", "r", "n", "i", "n", "g", "s", " ", "w", "e", "r", "e", " ", "r", "e", "p", "o", "r", "t", "e", "d">>,
      <<"S", "u", "b", "s", "c", "r", "i", "b", "e", " ", "n", "o", "w">> }

\* an absent and a present link
LinkInputs ==
    { <<>>,
      <<"/", "n", "e", "w", "s", "/", "a", "-", "1">> }

RawTitles ==
    { << >> } \cup
    UNION { { str_join(<< " " >>, parts) : parts \in [1..n -> TitleFragments] }
            : n \in 1..MaxTitleParts }

validVars == << raw_title, summary, link, title, valid, vpc >>

IdleValid ==
    /\ raw_title = << >> /\ summary = << >> /\ link = << >>
    /\ title = << >> /\ valid = "none" /\ vpc = "idle"

\* title = clean_text(title_tag.get_text()); is_valid_article(title, summary, link)
Classify ==
    /\ vpc = "candidate"
    /\ title' = clean_text(raw_title)
    /\ valid' = is_valid_article(title', summary, link)
    /\ vpc' = "done"
    /\ UNCHANGED << raw_title, summary, link >>

(***************************************************************************)
(* run_super_scraper (news_scraper.py lines 558-624): per site the four    *)
(* strategies extend site_articles, then the site's records are merged     *)
(* into final_news by title key.                                           *)
(***************************************************************************)
NumSites == 2

\* most records the strategies of one run return, all sites together
MaxArticles == 3

\* titles of emitted records: two that differ in case only, and another one
MergeTitles ==
    { <<"N", "i", "f", "t", "y", " ", "u", "p", " ", "2", "%", " ", "t", "o", "d", "a", "y">>,
      <<"N", "I", "F", "T", "Y", " ", "U", "P", " ", "2", "%", " ", "T", "O", "D", "A", "Y">>,
      <<"R", "u", "p", "e", "e", " ", "s", "l", "i", "p", "s", ":", " ", "R", "B", "I", " ", "s", "t", "e", "p", "s", " ", "i", "n">> }

Strategies == { "static", "headlines", "crawl", "js" }

\* the title lists one pass can return: each pass keeps a seen_titles set of
\* title.lower(), so no two of its records have the same lowered title
TitleLists ==
    { l \in UNION { [1..n -> MergeTitles] : n \in 0..Cardinality(MergeTitles) } :
        \A i, j \in 1..Len(l) : i # j => str_lower(l[i]) # str_lower(l[j]) }

\* the record lists strategy by can return for a site, at most room records
PassResults(site, by, room) ==
    { [ i \in 1..Len(l) |-> [title |-> l[i], source |-> site, by |-> by] ] :
        l \in { x \in TitleLists : Len(x) <= room } }

\* faulty variant of title_key: the title is not lowered
title_key_CaseSensitive(article) == str_strip(article.title)

\* line 612: article.get("title", "").lower().strip()
title_key(article) == str_strip(str_lower(article.title))

\* lines 611-615, from the i-th record of the site on
RECURSIVE DedupFrom(_, _, _, _)
DedupFrom(articles, i, news, seen) ==
    IF i > Len(articles) THEN [news |-> news, seen |-> seen]
    ELSE LET k == title_key(articles[i])
         IN  IF Len(k) # 0 /\ k \notin seen
             THEN DedupFrom(articles, i + 1, Append(news, articles[i]), seen \cup { k })
             ELSE DedupFrom(articles, i + 1, news, seen)

mergeVars == << selenium, site_idx, site_articles, final_news, seen_articles,
                unique_count, n_scraped, mpc >>

IdleMerge ==
    /\ selenium = FALSE /\ site_idx = 0 /\ site_articles = << >>
    /\ final_news = << >> /\ seen_articles = {} /\ unique_count = 0
    /\ n_scraped = 0 /\ mpc = "idle"

\* lines 560-561 and the first iteration's line 569
InitMerge ==
    /\ selenium \in BOOLEAN
    /\ site_idx = 1 /\ site_articles = << >>
    /\ final_news = << >> /\ seen_articles = {} /\ unique_count = 0
    /\ n_scraped = 0
    /\ mpc = "static"

\* lines 573-578
ScrapeStatic ==
    /\ mpc = "static"
    /\ \E articles \in PassResults(site_idx, "static", MaxArticles - n_scraped) :
          /\ site_articles' = site_articles \o articles
          /\ n_scraped' = n_scraped + Len(articles)
    /\ mpc' = "headlines"
    /\ UNCHANGED << selenium, site_idx, final_news, seen_articles, unique_count >>

\* lines 582-587
ScrapeHeadlines ==
    /\ mpc = "headlines"
    /\ \E articles \in PassResults(site_idx, "headlines", MaxArticles - n_scraped) :
          /\ site_articles' = site_articles \o articles
          /\ n_scraped' = n_scraped + Len(articles)
    /\ mpc' = "crawl"
    /\ UNCHANGED << selenium, site_idx, final_news, seen_articles, unique_count >>

\* lines 591-596
CrawlPages ==
    /\ mpc = "crawl"
    /\ \E articles \in PassResults(site_idx, "crawl", MaxArticles - n_scraped) :
          /\ site_articles' = site_articles \o articles
          /\ n_scraped' = n_scraped + Len(articles)
    /\ mpc' = "js"
    /\ UNCHANGED << selenium, site_idx, final_news, seen_articles, unique_count >>

\* lines 599-606
ScrapeJs ==
    /\ mpc = "js" /\ selenium
    /\ \E articles \in PassResults(site_idx, "js", MaxArticles - n_scraped) :
          /\ site_articles' = site_articles \o articles
          /\ n_scraped' = n_scraped + Len(articles)
    /\ mpc' = "dedup"
    /\ UNCHANGED << selenium, site_idx, final_news, seen_articles, unique_count >>

\* lines 607-608
SkipJs ==
    /\ mpc = "js" /\ ~selenium
    /\ mpc' = "dedup"
    /\ UNCHANGED << selenium, site_idx, site_articles, final_news, seen_articles,
                    unique_count, n_scraped >>

\* lines 611-618
DedupSite ==
    /\ mpc = "dedup"
    /\ LET r == DedupFrom(site_articles, 1, final_news, seen_articles)
       IN  /\ final_news' = r.news
           /\ seen_articles' = r.seen
           /\ unique_count' =
                 Cardinality({ i \in 1..Len(site_articles) :
                                 title_key(site_articles[i]) \in r.seen })
    /\ mpc' = "next"
    /\ UNCHANGED << selenium, site_idx, site_articles, n_scraped >>

\* lines 566-569: the next site starts with an empty site_articles
NextSite ==
    /\ mpc = "next" /\ site_idx < NumSites
    /\ site_idx' = site_idx + 1
    /\ site_articles' = << >>
    /\ mpc' = "static"
    /\ UNCHANGED << selenium, final_news, seen_articles, unique_count, n_scraped >>

\* line 624
ReturnNews ==
    /\ mpc = "next" /\ site_idx = NumSites
    /\ mpc' = "done"
    /\ UNCHANGED << selenium, site_idx, site_articles, final_news, seen_articles,
                    unique_count, n_scraped >>

(***************************************************************************)
(* news_scraper.py: validate_date, clean_date and the regular expressions  *)
(* of extract_date.  Positions are 1-based; a match is given by the        *)
(* position after its last character, 0 meaning no match at that start.    *)
(***************************************************************************)
MIN_YEAR == 2020

MAX_YEAR == 2030

\* n digits from position i on
DigitsAt(s, i, n) ==
    /\ i >= 1 /\ i + n - 1 <= Len(s)
    /\ \A k \in 0..(n - 1) : IsDigit(s[i + k])

CharAt(s, i, c) == i >= 1 /\ i <= Len(s) /\ s[i] = c

\* the position after the maximal run of whitespace (of letters) starting at i
SpaceRunEnd(s, i) ==
    LET stops == { j \in i..Len(s) : ~IsSpace(s[j]) }
    IN  IF stops = {} THEN Len(s) + 1 ELSE CHOOSE j \in stops : \A k \in stops : j <= k

LetterRunEnd(s, i) ==
    LET stops == { j \in i..Len(s) : ~IsLetter(s[j]) }
    IN  IF stops = {} THEN Len(s) + 1 ELSE CHOOSE j \in stops : \A k \in stops : j <= k

\* line 173: 20[2-3][0-9] at position i
YearAt(s, i) ==
    /\ i + 3 <= Len(s)
    /\ s[i] = "2" /\ s[i + 1] = "0" /\ s[i + 2] \in { "2", "3" } /\ IsDigit(s[i + 3])

\* re.search(r'20[2-3][0-9]', s): the start of the leftmost match, scanning from i;
\* 0 when there is none
RECURSIVE YearSearchFrom(_, _)
YearSearchFrom(s, i) ==
    IF i + 3 > Len(s) THEN 0
    ELSE IF YearAt(s, i) THEN i
    ELSE YearSearchFrom(s, i + 1)

\* int(year_match.group(0))
YearValue(s, i) ==
    1000 * DigitValue[s[i]] + 100 * DigitValue[s[i + 1]]
      + 10 * DigitValue[s[i + 2]] + DigitValue[s[i + 3]]

\* line 169
HasZeroDate(s) ==
    Contains(<< "0", "0", "-", "0", "0" >>, s) \/ Contains(<< "0", "0", "/", "0", "0" >>, s)

\* faulty variant of YearInRange: the upper limit is off by one
YearInRange_OffByOne(year) == ~(year < MIN_YEAR \/ year > MAX_YEAR + 1)

\* line 178, negated: not (year < 2020 or year > 2030)
YearInRange(year) == ~(year < MIN_YEAR \/ year > MAX_YEAR)

\* validate_date(date_str)
validate_date(s) ==
    IF Len(s) = 0 THEN FALSE
    ELSE IF HasZeroDate(s) THEN FALSE
    ELSE LET m == YearSearchFrom(s, 1)
         IN  IF m = 0 THEN FALSE
             ELSE YearInRange(YearValue(s, m))

\* [+\-]\d{2}:\d{2} at position i
OffsetAt(s, i) ==
    /\ i >= 1 /\ i + 5 <= Len(s)
    /\ s[i] \in { "+", "-" }
    /\ IsDigit(s[i + 1]) /\ IsDigit(s[i + 2])
    /\ s[i + 3] = ":"
    /\ IsDigit(s[i + 4]) /\ IsDigit(s[i + 5])

\* re.sub(r'[+\-]\d{2}:\d{2}$', '', s): $ is the end of the string, or the place
\* before a newline that ends the string
StripOffset(s) ==
    IF OffsetAt(s, Len(s) - 5) THEN SubSeq(s, 1, Len(s) - 6)
    ELSE IF CharAt(s, Len(s), "\n") /\ OffsetAt(s, Len(s) - 6)
         THEN SubSeq(s, 1, Len(s) - 7) \o << "\n" >>
    ELSE s

\* re.sub(r'Z$', '', s)
StripZulu(s) ==
    IF CharAt(s, Len(s), "Z") THEN SubSeq(s, 1, Len(s) - 1)
    ELSE IF CharAt(s, Len(s), "\n") /\ CharAt(s, Len(s) - 1, "Z")
         THEN SubSeq(s, 1, Len(s) - 2) \o << "\n" >>
    ELSE s

\* clean_date(date_str)
clean_date(s) ==
    IF Len(s) = 0 THEN << >>
    ELSE str_strip(StripZulu(StripOffset(s)))

MonthNames ==
    { << "j", "a", "n" >>, << "f", "e", "b" >>, << "m", "a", "r" >>, << "a", "p", "r" >>,
      << "m", "a", "y" >>, << "j", "u", "n" >>, << "j", "u", "l" >>, << "a", "u", "g" >>,
      << "s", "e", "p" >>, << "o", "c", "t" >>, << "n", "o", "v" >>, << "d", "e", "c" >> }

\* (Jan|Feb|...|Dec) under re.IGNORECASE
MonthAt(s, i) == i >= 1 /\ i + 2 <= Len(s) /\ str_lower(SubSeq(s, i, i + 2)) \in MonthNames

\* \s+(Jan|...|Dec)[a-z]*\s+\d{4} from position j on (the greedy runs cannot give
\* back a character: what follows each of them is of another class)
MonthYearEnd(s, j) ==
    LET m == SpaceRunEnd(s, j)
    IN  IF ~(m > j /\ MonthAt(s, m)) THEN 0
        ELSE LET w == LetterRunEnd(s, m + 3)
                 y == SpaceRunEnd(s, w)
             IN  IF y > w /\ DigitsAt(s, y, 4) THEN y + 4 ELSE 0

\* line 138: \d{1,2}\s+(Jan|...)[a-z]*\s+\d{4}; two digits are tried before one
DayMonthYearEnd(s, i) ==
    LET two == IF DigitsAt(s, i, 2) THEN MonthYearEnd(s, i + 2) ELSE 0
        one == IF DigitsAt(s, i, 1) THEN MonthYearEnd(s, i + 1) ELSE 0
    IN  IF two # 0 THEN two ELSE one

\* \d{1,2}/\d{4} from position j on
SlashYearEnd(s, j) ==
    IF DigitsAt(s, j, 2) /\ CharAt(s, j + 2, "/") /\ DigitsAt(s, j + 3, 4) THEN j + 7
    ELSE IF DigitsAt(s, j, 1) /\ CharAt(s, j + 1, "/") /\ DigitsAt(s, j + 2, 4) THEN j + 6
    ELSE 0

\* line 139: \d{1,2}/\d{1,2}/\d{4}
SlashDateEnd(s, i) ==
    LET two == IF DigitsAt(s, i, 2) /\ CharAt(s, i + 2, "/") THEN SlashYearEnd(s, i + 3) ELSE 0
        one == IF DigitsAt(s, i, 1) /\ CharAt(s, i + 1, "/") THEN SlashYearEnd(s, i + 2) ELSE 0
    IN  IF two # 0 THEN two ELSE one

\* line 140: \d{4}-\d{2}-\d{2}
IsoDateEnd(s, i) ==
    IF /\ DigitsAt(s, i, 4) /\ CharAt(s, i + 4, "-")
       /\ DigitsAt(s, i + 5, 2) /\ CharAt(s, i + 7, "-")
       /\ DigitsAt(s, i + 8, 2)
    THEN i + 10 ELSE 0

\* \d{1,2}:\d{2} from position k on
ClockEnd(s, k) ==
    IF DigitsAt(s, k, 2) /\ CharAt(s, k + 2, ":") /\ DigitsAt(s, k + 3, 2) THEN k + 5
    ELSE IF DigitsAt(s, k, 1) /\ CharAt(s, k + 1, ":") /\ DigitsAt(s, k + 2, 2) THEN k + 4
    ELSE 0

\* line 141: the pattern of line 138 followed by ,\s+\d{1,2}:\d{2}
DayMonthYearTimeEnd(s, i) ==
    LET e == DayMonthYearEnd(s, i)
    IN  IF e = 0 \/ ~CharAt(s, e, ",") THEN 0
        ELSE LET k == SpaceRunEnd(s, e + 1)
             IN  IF k > e + 1 THEN ClockEnd(s, k) ELSE 0

\* date_patterns, in the order of lines 137-142
PatternEnd(p, s, i) ==
    CASE p = 1 -> DayMonthYearEnd(s, i)
      [] p = 2 -> SlashDateEnd(s, i)
      [] p = 3 -> IsoDateEnd(s, i)
      [] p = 4 -> DayMonthYearTimeEnd(s, i)

NumPatterns == 4

\* re.search(pattern, text, re.IGNORECASE): the leftmost match, scanning from i
RECURSIVE SearchFrom(_, _, _)
SearchFrom(p, s, i) ==
    IF i > Len(s) THEN [found |-> FALSE, text |-> << >>]
    ELSE IF PatternEnd(p, s, i) # 0
         THEN [found |-> TRUE, text |-> SubSeq(s, i, PatternEnd(p, s, i) - 1)]
    ELSE SearchFrom(p, s, i + 1)

re_search(p, s) == SearchFrom(p, s, 1)

(***************************************************************************)
(* validate_date and clean_date applied to one string.                     *)
(***************************************************************************)
MaxDateParts == 3

MaxSources == 2

\* fragments date strings are put together from
DateFragments ==
    { <<"2", "0">>,
      <<"3", "0">>,
      <<"3", "1">>,
      <<"2", "4">>,
      <<"-", "0", "3", "-", "1", "0">>,
      <<"0", "0", "-", "0", "0">>,
      <<"0", "0", "/", "0", "0">>,
      <<"1", "5", " ", "J", "a", "n", " ">>,
      <<"Z">>,
      <<"+", "0", "5", ":", "3", "0">>,
      <<" ">> }

\* values of a date-bearing attribute, of a time element or of a meta tag
DateStrings ==
    { <<>>,
      <<"2", "0", "2", "4", "-", "0", "3", "-", "1", "0">>,
      <<"1", "5", " ", "J", "a", "n", " ", "2", "0", "3", "1">>,
      <<"2", "0", "2", "4", "-", "0", "3", "-", "1", "0", "T", "0", "9", ":", "0", "0", ":", "0", "0", "+", "0", "5", ":", "3", "0">>,
      <<"2", "0", "2", "4", "-", "0", "0", "-", "0", "0">>,
      <<"M", "a", "r", "c", "h", " ", "2", "0", "2", "5">> }

\* text of the candidate node outside its time element
BodyTexts ==
    { <<"N", "o", " ", "d", "a", "t", "e", " ", "h", "e", "r", "e">>,
      <<"P", "o", "s", "t", "e", "d", " ", "1", "5", " ", "J", "a", "n", " ", "2", "0", "3", "1", " ", "/", " ", "1", "2", "/", "0", "5", "/", "2", "0", "2", "4">>,
      <<"O", "n", " ", "1", " ", "F", "e", "b", " ", "2", "0", "1", "9", ",", " ", "t", "h", "e", "n", " ", "2", " ", "M", "a", "r", " ", "2", "0", "2", "4", ",", " ", "1", "0", ":", "3", "0">>,
      <<"5", "/", "6", "/", "1", "9", "9", "9", " ", "a", "n", "d", " ", "7", "/", "8", "/", "2", "0", "2", "4">> }

RECURSIVE Concat(_)
Concat(parts) == IF Len(parts) = 0 THEN << >> ELSE parts[1] \o Concat(Tail(parts))

DateInputs ==
    UNION { { Concat(parts) : parts \in [1..n -> DateFragments] } : n \in 0..MaxDateParts }

checkVars == << date_str, date_ok, date_clean, dpc >>

IdleCheck == date_str = << >> /\ date_ok = FALSE /\ date_clean = << >> /\ dpc = "idle"

ValidateDate ==
    /\ dpc = "start"
    /\ date_ok' = validate_date(date_str)
    /\ dpc' = "validated"
    /\ UNCHANGED << date_str, date_clean >>

CleanDate ==
    /\ dpc = "validated"
    /\ date_clean' = clean_date(date_str)
    /\ dpc' = "done"
    /\ UNCHANGED << date_str, date_ok >>

(***************************************************************************)
(* extract_date(soup, article_elem) on one page.  The page is given by the *)
(* places a date can stand in: the candidate node's first time element     *)
(* (its datetime attribute and its text), the node's four date attributes, *)
(* the rest of the node's text, and the four page-level meta tags.         *)
(***************************************************************************)
DATE_ATTRS == << "data-date", "data-published", "data-time", "pubdate" >>

META_DATES == << "article:published_time", "publish-date", "date", "publishdate" >>

TimeSlots == { "time.datetime", "time.text" }

AttrSlots == { DATE_ATTRS[i] : i \in 1..Len(DATE_ATTRS) }

MetaSlots == { META_DATES[i] : i \in 1..Len(META_DATES) }

ElemSlots == TimeSlots \cup AttrSlots \cup { "body" }

Slots == ElemSlots \cup MetaSlots

SlotValues(slot) == IF slot = "body" THEN BodyTexts ELSE DateStrings

\* a page: whether a candidate node is given, the slots that are present, and their
\* texts (an absent slot reads as the empty string)
PageOf(e, S, v) ==
    [elem |-> e, present |-> S, val |-> [s \in Slots |-> IF s \in S THEN v[s] ELSE << >>]]

NoPage == PageOf(FALSE, {}, << >>)

\* time_tag = article_elem.find("time")
HasTimeTag(pg) == pg.present \cap TimeSlots # {}

\* time_tag.get("datetime", "") or time_tag.get_text(strip=True)
TimeCandidate(pg) ==
    IF Len(pg.val["time.datetime"]) # 0 THEN pg.val["time.datetime"]
    ELSE str_strip(pg.val["time.text"])

\* article_elem.get_text(): the time element's text, then the rest
ElemText(pg) == pg.val["time.text"] \o pg.val["body"]

\* faulty variant of Accepted: the value is not validated
Accepted_Unvalidated(s) == Len(s) # 0

\* lines 127, 133, 158: date_str and validate_date(date_str)
Accepted(s) == Len(s) # 0 /\ validate_date(s)

\* line 148: validate_date(date_str) of a regex match
AcceptedMatch(s) == validate_date(s)

\* lines 131-134, from the i-th attribute on
RECURSIVE AttrDateFrom(_, _)
AttrDateFrom(pg, i) ==
    IF i > Len(DATE_ATTRS) THEN [found |-> FALSE, text |-> << >>]
    ELSE IF Accepted(pg.val[DATE_ATTRS[i]])
         THEN [found |-> TRUE, text |-> clean_date(pg.val[DATE_ATTRS[i]])]
    ELSE AttrDateFrom(pg, i + 1)

\* lines 144-149, from the p-th pattern on
RECURSIVE TextDateFrom(_, _)
TextDateFrom(text, p) ==
    IF p > NumPatterns THEN [found |-> FALSE, text |-> << >>]
    ELSE LET match == re_search(p, text)
         IN  IF match.found /\ AcceptedMatch(match.text)
             THEN [found |-> TRUE, text |-> clean_date(match.text)]
             ELSE TextDateFrom(text, p + 1)

\* lines 152-155: soup.find(...) or soup.find(...) or ...: the first of the four meta
\* tags that is on the page (a tag is true whatever its content); 0 when none is
RECURSIVE MetaDateFrom(_, _)
MetaDateFrom(pg, i) ==
    IF i > Len(META_DATES) THEN 0
    ELSE IF META_DATES[i] \in pg.present THEN i
    ELSE MetaDateFrom(pg, i + 1)

\* lines 152-161
PageMetaDate(pg) ==
    LET m == MetaDateFrom(pg, 1)
    IN  IF m # 0 /\ Accepted(pg.val[META_DATES[m]]) THEN clean_date(pg.val[META_DATES[m]])
        ELSE << >>

\* extract_date(soup, article_elem)
extract_date(pg) ==
    IF ~pg.elem THEN PageMetaDate(pg)
    ELSE IF HasTimeTag(pg) /\ Accepted(TimeCandidate(pg)) THEN clean_date(TimeCandidate(pg))
    ELSE LET a == AttrDateFrom(pg, 1)
         IN  IF a.found THEN a.text
             ELSE LET t == TextDateFrom(ElemText(pg), 1)
                  IN  IF t.found THEN t.text ELSE PageMetaDate(pg)

extractVars == << page, date_result, epc >>

IdleExtract == page = NoPage /\ date_result = << >> /\ epc = "idle"

InitExtract ==
    /\ \E S \in { T \in SUBSET Slots : Cardinality(T) <= MaxSources } :
       \E v \in { f \in [S -> DateStrings \cup BodyTexts] : \A s \in S : f[s] \in SlotValues(s) } :
       \E e \in BOOLEAN :
          /\ S \cap ElemSlots # {} => e
          /\ page = PageOf(e, S, v)
    /\ date_result = << >>
    /\ epc = "start"

ExtractDate ==
    /\ epc = "start"
    /\ date_result' = extract_date(page)
    /\ epc' = "done"
    /\ UNCHANGED page

(***************************************************************************)
(* news_scraper.py: extract_category(soup, article_elem, url).             *)
(***************************************************************************)
MaxSegments == 2

\* what stands before the path: nothing (a relative link) or scheme and host
UrlBases ==
    { <<>>,
      <<"h", "t", "t", "p", "s", ":", "/", "/", "w", "w", "w", ".", "x", ".", "c", "o", "m">> }

\* path segments
UrlSegments ==
    { <<"m", "a", "r", "k", "e", "t", "s">>,
      <<"s", "t", "o", "c", "k", "-", "m", "a", "r", "k", "e", "t">>,
      <<"n", "e", "w", "s">> }

\* what follows the path
UrlTails ==
    { <<>>,
      <<"/">>,
      <<"?", "p", "=", "1">> }

\* content of a category meta tag
CategoryStrings ==
    { <<>>,
      <<"B", "u", "s", "i", "n", "e", "s", "s">> }

META_CATEGORIES == << "article:section", "category" >>

CatSlots == { META_CATEGORIES[i] : i \in 1..Len(META_CATEGORIES) }

UrlInputs ==
    { << >> } \cup
    { base \o << "/" >> \o str_join(<< "/" >>, segs) \o tail :
        base \in UrlBases,
        segs \in UNION { [1..n -> UrlSegments] : n \in 0..MaxSegments },
        tail \in UrlTails }

\* the characters of a URL scheme
IsSchemeChar(c) == IsLetter(c) \/ IsDigit(c) \/ c \in { "+", "-", "." }

\* the smallest position of a character of set cs in s from position i on; Len(s) + 1 if none
FirstOf(s, cs, i) ==
    LET at == { j \in i..Len(s) : s[j] \in cs }
    IN  IF at = {} THEN Len(s) + 1 ELSE CHOOSE j \in at : \A k \in at : j <= k

\* urlparse(url).path: what follows the scheme and the //netloc, up to the first ? or #
url_path(url) ==
    LET colon == FirstOf(url, { ":" }, 1)
        hasScheme == /\ colon <= Len(url) /\ colon > 1 /\ IsLetter(url[1])
                     /\ \A j \in 1..(colon - 1) : IsSchemeChar(url[j])
        rest == IF hasScheme THEN SubSeq(url, colon + 1, Len(url)) ELSE url
        afterNet == IF MatchAt(<< "/", "/" >>, rest, 0)
                    THEN SubSeq(rest, FirstOf(rest, { "/", "?", "#" }, 3), Len(rest))
                    ELSE rest
    IN  SubSeq(afterNet, 1, FirstOf(afterNet, { "?", "#" }, 1) - 1)

\* lines 199-200: the first of the two meta tags that is on the page; 0 when none is
RECURSIVE MetaCatFrom(_, _)
MetaCatFrom(pg, i) ==
    IF i > Len(META_CATEGORIES) THEN 0
    ELSE IF META_CATEGORIES[i] \in pg.present THEN i
    ELSE MetaCatFrom(pg, i + 1)

\* lines 201-202
MetaCategory(pg) ==
    LET m == MetaCatFrom(pg, 1)
    IN  IF m # 0 THEN pg.val[META_CATEGORIES[m]] ELSE << >>

\* line 207: len(path_parts) > 1
HasCategorySegment(path_parts) == Len(path_parts) > 1

\* lines 205-208
UrlCategory(url) ==
    LET path_parts == str_split_char(str_strip_char(url_path(url), "/"), "/")
    IN  IF HasCategorySegment(path_parts)
        THEN str_title(str_replace(path_parts[1], << "-" >>, << " " >>))
        ELSE << >>

\* extract_category(soup, article_elem, url)
extract_category(pg, url) ==
    LET cat == MetaCategory(pg)
    IN  IF Len(cat) = 0 /\ Len(url) # 0 THEN UrlCategory(url) ELSE cat

CatPageOf(S, v) ==
    [present |-> S, val |-> [s \in CatSlots |-> IF s \in S THEN v[s] ELSE << >>]]

catVars == << cat_page, cat_url, category, cpc >>

IdleCat == cat_page = CatPageOf({}, << >>) /\ cat_url = << >> /\ category = << >> /\ cpc = "idle"

InitCat ==
    /\ \E S \in SUBSET CatSlots : \E v \in [S -> CategoryStrings] : cat_page = CatPageOf(S, v)
    /\ cat_url \in UrlInputs
    /\ category = << >>
    /\ cpc = "start"

ExtractCategory ==
    /\ cpc = "start"
    /\ category' = extract_category(cat_page, cat_url)
    /\ cpc' = "done"
    /\ UNCHANGED << cat_page, cat_url >>

(***************************************************************************)
(* detail.py: clean_text and extract_structured_tables.  A table element   *)
(* is given by its caption, its thead, the tr elements that are direct     *)
(* children of the table, and its tbody, in this document order; a row is  *)
(* the sequence of its cells, a cell has a tag name and a text.            *)
(***************************************************************************)
MaxRows == 2

\* the end of the run of non-whitespace characters that starts at s[i]
NonSpaceRunEnd(s, i) ==
    LET stops == { j \in i..Len(s) : IsSpace(s[j]) }
    IN  IF stops = {} THEN Len(s) + 1 ELSE CHOOSE j \in stops : \A k \in stops : j <= k

\* re.sub(r'\s+', ' ', s): every maximal run of whitespace becomes one space,
\* every run of other characters is kept as it is
RECURSIVE CollapseFrom(_, _)
CollapseFrom(s, i) ==
    IF i > Len(s) THEN << >>
    ELSE IF IsSpace(s[i]) THEN << " " >> \o CollapseFrom(s, SpaceRunEnd(s, i))
    ELSE SubSeq(s, i, NonSpaceRunEnd(s, i) - 1) \o CollapseFrom(s, NonSpaceRunEnd(s, i))

\* clean_text of detail.py
detail_clean_text(text) ==
    IF Len(text) = 0 THEN << >> ELSE CollapseFrom(str_strip(text), 1)

Th(text) == [name |-> "th", text |-> text]

Td(text) == [name |-> "td", text |-> text]

RowInputs ==
    { << Th(<< "A" >>), Th(<< "B" >>) >>,
      << Td(<< "1" >>), Td(<< " ", "2", " ", " ", "k", " " >>) >>,
      << Td(<< "3" >>) >>,
      << >>,
      << Td(<< "x" >>), Td(<< "y" >>), Td(<< "z" >>) >>,
      << Th(<< "A" >>), Th(<< "A" >>) >> }

CaptionInputs == { [present |-> FALSE, text |-> << >>],
                   [present |-> TRUE, text |-> << " ", "I", "P", "O", " " >>] }

RowLists(n) == UNION { [1..k -> RowInputs] : k \in 0..n }

Absent == [present |-> FALSE, rows |-> << >>]

Group(rows) == [present |-> TRUE, rows |-> rows]

\* the tables with at most MaxRows rows outside the thead
TableInputs ==
    UNION { { [caption |-> c, thead |-> h, direct |-> d, tbody |-> b] :
                c \in CaptionInputs,
                h \in { Absent } \cup { Group(r) : r \in RowLists(1) },
                b \in { Absent } \cup { Group(r) : r \in RowLists(MaxRows - Len(d)) } }
            : d \in RowLists(MaxRows) }

\* [clean_text(cell.get_text()) for cell in cells]
CellTexts(row) == [ i \in 1..Len(row) |-> detail_clean_text(row[i].text) ]

\* table.find_all("tr"), in document order
AllRows(t) == t.thead.rows \o t.direct \o t.tbody.rows

\* lines 72-79: headers from the first row of the thead
TheadHeaders(t) ==
    IF Len(t.thead.rows) # 0 THEN CellTexts(t.thead.rows[1]) ELSE << >>

\* line 86: the first row has a th cell, or more than two cells
LooksLikeHeaderRow(cells) ==
    (\E i \in 1..Len(cells) : cells[i].name = "th") \/ Len(cells) > 2

\* lines 82-90: headers from the first tr of the table
FirstRowHeaders(t) ==
    IF Len(AllRows(t)) # 0 /\ LooksLikeHeaderRow(AllRows(t)[1])
    THEN CellTexts(AllRows(t)[1]) ELSE << >>

\* lines 72-90
TableHeaders(t) == IF t.thead.present THEN TheadHeaders(t) ELSE FirstRowHeaders(t)

\* line 94
RowsSource(t) == IF t.tbody.present THEN t.tbody.rows ELSE AllRows(t)

\* line 97: start_idx = 1 if not thead and table_data["headers"] else 0
StartIdx(t, headers) == IF ~t.thead.present /\ Len(headers) # 0 THEN 1 ELSE 0

\* dict(zip(headers, row_data)): the keys in the order of their first occurrence, each
\* with the value of its last occurrence; a sequence of << key, value >> pairs
ZipDict(headers, row_data) ==
    LET firsts == { i \in 1..Len(headers) : \A j \in 1..(i - 1) : headers[j] # headers[i] }
        last(i) == CHOOSE j \in 1..Len(headers) :
                       /\ headers[j] = headers[i]
                       /\ \A k \in (j + 1)..Len(headers) : headers[k] # headers[i]
        RECURSIVE Pairs(_)
        Pairs(i) ==
            IF i > Len(headers) THEN << >>
            ELSE IF i \in firsts
                 THEN << << headers[i], row_data[last(i)] >> >> \o Pairs(i + 1)
            ELSE Pairs(i + 1)
    IN  Pairs(1)

\* lines 104-111: one row with cells, as a dict or as a list
RowRecord(headers, row) ==
    LET row_data == CellTexts(row)
    IN  IF Len(headers) # 0 /\ Len(row_data) = Len(headers)
        THEN [kind |-> "dict", items |-> ZipDict(headers, row_data)]
        ELSE [kind |-> "list", items |-> row_data]

\* lines 99-111, from the i-th row of rows_source on
RECURSIVE DataRowsFrom(_, _, _)
DataRowsFrom(headers, rows_source, i) ==
    IF i > Len(rows_source) THEN << >>
    ELSE IF Len(rows_source[i]) = 0 THEN DataRowsFrom(headers, rows_source, i + 1)
    ELSE << RowRecord(headers, rows_source[i]) >> \o DataRowsFrom(headers, rows_source, i + 1)

\* lines 60-111: table_data of one table
TableData(t) ==
    LET headers == TableHeaders(t)
    IN  [ headers |-> headers,
          rows    |-> DataRowsFrom(headers, RowsSource(t), StartIdx(t, headers) + 1),
          caption |-> IF t.caption.present THEN detail_clean_text(t.caption.text) ELSE << >> ]

\* faulty variant of HasMeaningfulData: a caption alone makes the table emitted
HasMeaningfulData_OrCaption(table_data) ==
    Len(table_data.rows) # 0 \/ Len(table_data.headers) # 0 \/ Len(table_data.caption) # 0

\* lines 114-115
HasMeaningfulData(table_data) == Len(table_data.rows) # 0 \/ Len(table_data.headers) # 0

\* extract_structured_tables(soup), soup holding the table elements ts
RECURSIVE extract_structured_tables(_)
extract_structured_tables(ts) ==
    IF Len(ts) = 0 THEN << >>
    ELSE (IF HasMeaningfulData(TableData(ts[1])) THEN << TableData(ts[1]) >> ELSE << >>)
         \o extract_structured_tables(Tail(ts))

tableVars == << table, tables, tpc >>

NoTable == [caption |-> [present |-> FALSE, text |-> << >>], thead |-> Absent,
            direct |-> << >>, tbody |-> Absent]

IdleTable == table = NoTable /\ tables = << >> /\ tpc = "idle"

InitTable ==
    /\ table \in TableInputs
    /\ tables = << >>
    /\ tpc = "start"

ExtractTables ==
    /\ tpc = "start"
    /\ tables' = extract_structured_tables(<< table >>)
    /\ tpc' = "done"
    /\ UNCHANGED table

(***************************************************************************)
(* detail.py: extract_content_sections.                                    *)
(***************************************************************************)
MaxElements == 4

HEADING_TAGS ==
    { << "h", "1" >>, << "h", "2" >>, << "h", "3" >>,
      << "h", "4" >>, << "h", "5" >>, << "h", "6" >> }

BLOCK_TAGS == { << "p" >>, << "d", "i", "v" >> }

\* the phrases of line 184
BOILERPLATE ==
    { <<"c", "o", "o", "k", "i", "e">>,
      <<"p", "r", "i", "v", "a", "c", "y">>,
      <<"t", "e", "r", "m", "s">>,
      <<"c", "o", "p", "y", "r", "i", "g", "h", "t">>,
      <<"m", "e", "n", "u">>,
      <<"n", "a", "v", "i", "g", "a", "t", "i", "o", "n">> }

Element(name, text) == [name |-> name, text |-> text]

\* the elements soup.find_all(['h1', ..., 'h6', 'p', 'div']) can return
ElementInputs ==
    { Element(<< "h", "1" >>, <<"X">>),
      Element(<< "h", "2" >>, <<"X">>),
      Element(<< "h", "2" >>, <<" ", " ", "Y", " ">>),
      Element(<< "h", "6" >>, <<"X">>),
      Element(<< "p" >>, <<"I", "s", "s", "u", "e", " ", "o", "p", "e", "n", "s", " ", "o", "n", " ", "M", "o", "n", "d", "a", "y", " ", "n", "e", "x", "t", " ", "w", "e", "e", "k">>),
      Element(<< "p" >>, <<"T", "o", "o", " ", "s", "h", "o", "r", "t">>),
      Element(<< "p" >>, <<"W", "e", " ", "u", "s", "e", " ", "C", "o", "o", "k", "i", "e", "s", " ", "t", "o", " ", "i", "m", "p", "r", "o", "v", "e", " ", "t", "h", "i", "s", " ", "s", "i", "t", "e">>),
      Element(<< "p" >>, <<"a", "b", "c", "d", "e", "f", "g", "h", "i", "j", " ", " ", "k", "l", "m", "n", "o", "p", "q", "r", "s">>),
      Element(<< "p" >>, <<"a", "b", "c", "d", "e", "f", "g", "h", "i", "j", " ", "k", "l", "m", "n", "o", "p", "q", "r", "s", "t">>),
      Element(<< "d", "i", "v" >>, <<"I", "s", "s", "u", "e", " ", "o", "p", "e", "n", "s", " ", "o", "n", " ", "M", "o", "n", "d", "a", "y", " ", "n", "e", "x", "t", " ", "w", "e", "e", "k">>) }

ElementLists == UNION { [1..n -> ElementInputs] : n \in 0..MaxElements }

\* int(element.name[1])
HeadingLevel(name) == DigitValue[name[2]]

\* the phrases looked for in the text as it is, not in its lowered form
IsMeaningfulText_CaseSensitive(text) ==
    /\ Len(text) # 0
    /\ Len(text) > 20
    /\ ~ \E skip \in BOILERPLATE : Contains(skip, text)

\* lines 183-185: not empty, longer than 20, none of the phrases in its lowered form
IsMeaningfulText(text) ==
    /\ Len(text) # 0
    /\ Len(text) > 20
    /\ ~ \E skip \in BOILERPLATE : Contains(skip, str_lower(text))

NoSection == [open |-> FALSE, heading |-> << >>, level |-> 0, content |-> << >>]

\* lines 175-179
NewSection(element) ==
    [open |-> TRUE, heading |-> detail_clean_text(element.text),
     level |-> HeadingLevel(element.name), content |-> << >>]

\* the section saved whenever it exists, with or without content
Saved_AlsoEmpty(out, current_section) ==
    IF current_section.open
    THEN Append(out, [heading |-> current_section.heading,
                      level   |-> current_section.level,
                      content |-> current_section.content])
    ELSE out

\* lines 171-172 and 189-190: the section is saved when it exists and has content
Saved(out, current_section) ==
    IF current_section.open /\ Len(current_section.content) # 0
    THEN Append(out, [heading |-> current_section.heading,
                      level   |-> current_section.level,
                      content |-> current_section.content])
    ELSE out

\* lines 180-186
WithBlock(current_section, element) ==
    LET text == detail_clean_text(element.text)
    IN  IF IsMeaningfulText(text)
        THEN [current_section EXCEPT !.content = Append(@, text)]
        ELSE current_section

\* the loop of lines 168-186 from the i-th element on, then lines 189-192
RECURSIVE SectionsFrom(_, _, _, _)
SectionsFrom(elems, i, current_section, out) ==
    IF i > Len(elems) THEN Saved(out, current_section)
    ELSE IF elems[i].name \in HEADING_TAGS
         THEN SectionsFrom(elems, i + 1, NewSection(elems[i]),
                           Saved(out, current_section))
    ELSE IF current_section.open /\ elems[i].name \in BLOCK_TAGS
         THEN SectionsFrom(elems, i + 1, WithBlock(current_section, elems[i]), out)
    ELSE SectionsFrom(elems, i + 1, current_section, out)

\* extract_content_sections(soup), soup holding the elements elems in document order
extract_content_sections(elems) == SectionsFrom(elems, 1, NoSection, << >>)

sectVars == << elements, sections, spc >>

IdleSect == elements = << >> /\ sections = << >> /\ spc = "idle"

InitSect ==
    /\ elements \in ElementLists
    /\ sections = << >>
    /\ spc = "start"

ExtractSections ==
    /\ spc = "start"
    /\ sections' = extract_content_sections(elements)
    /\ spc' = "done"
    /\ UNCHANGED elements

(***************************************************************************)
(* detail.py: extract_key_value_pairs.                                     *)
(*                                                                         *)
(* The limits of the function are 100 and 500 characters, so the texts of  *)
(* this part are kept run-length encoded: Text(head, run) is the string    *)
(* head followed by run copies of the letter x; no head ends with an x.    *)
(***************************************************************************)
MaxLabels == 2

MaxCandidates == 2

MAX_KEY_LEN == 100

MAX_VALUE_LEN == 500

LABEL_TAGS == { "dt", "label", "strong", "b" }

Text(head, run) == [head |-> head, run |-> run]

NoText == Text(<< >>, 0)

\* len(text)
TextLen(t) == Len(t.head) + t.run

\* clean_text of detail.py on an encoded text: the run is of non-space characters, so it
\* is kept as it is and shields the end of the head from the strip
kv_clean_text(t) ==
    IF t.run = 0 THEN Text(detail_clean_text(t.head), 0)
    ELSE LET cleaned == detail_clean_text(t.head \o << "x" >>)
         IN  Text(SubSeq(cleaned, 1, Len(cleaned) - 1), t.run)

KeyInputs ==
    { Text(<<" ", "I", "s", "s", "u", "e", " ", " ", "P", "r", "i", "c", "e", " ">>, 0),
      Text(<< >>, 0),
      Text(<< " ", "K" >>, MAX_KEY_LEN - 1),
      Text(<< "K" >>, MAX_KEY_LEN) }

ValueInputs ==
    { Text(<< >>, 0),
      Text(<<"1", "0", "0">>, 0),
      Text(<< "v" >>, MAX_VALUE_LEN - 2),
      Text(<< "v" >>, MAX_VALUE_LEN - 1) }

\* a node next to the label: absent, or an element with its tag and text
NoNode == [name |-> "none", text |-> NoText]

Node(name, text) == [name |-> name, text |-> text]

\* the next sibling of the label: none, a dd, a label-like tag or another tag
NextSiblings ==
    { NoNode, Node("strong", NoText) }
        \cup { Node(n, v) : n \in { "dd", "span" }, v \in ValueInputs }

\* a dd among the later siblings, when the next sibling is not itself a dd
LaterDds(next) ==
    IF next.name \in { "none", "dd" } THEN { NoNode }
    ELSE { NoNode } \cup { Node("dd", v) : v \in ValueInputs }

\* the next sibling of the parent of the label
ParentNexts == { NoNode } \cup { Node("div", v) : v \in ValueInputs }

Present(node) == IF node.name = "none" THEN 0 ELSE 1

\* a dt/label/strong/b element with the nodes the function looks at
LabelsWith(c) ==
    UNION { UNION { { [key |-> k, next |-> n, later_dd |-> d, parent_next |-> p] :
                        k \in KeyInputs,
                        p \in { q \in ParentNexts :
                                  Present(n) + Present(d) + Present(q) = c } }
                    : d \in LaterDds(n) }
            : n \in NextSiblings }

\* the documents with n labels and at most `room` candidate nodes
RECURSIVE DocsWith(_, _)
DocsWith(n, room) ==
    IF n = 0 THEN { << >> }
    ELSE UNION { { << l >> \o d : l \in LabelsWith(c), d \in DocsWith(n - 1, room - c) }
                 : c \in 0..(IF room < 3 THEN room ELSE 3) }

LabelDocs == UNION { DocsWith(n, MaxCandidates) : n \in 0..MaxLabels }

\* line 33: dt.find_next_sibling('dd')
FindDd(l) == IF l.next.name = "dd" THEN l.next ELSE l.later_dd

\* lines 33-35
DdValue(l) ==
    IF FindDd(l).name # "none" THEN kv_clean_text(FindDd(l).text) ELSE NoText

\* lines 38-41
SiblingValue(l, value) ==
    IF TextLen(value) = 0 /\ l.next.name # "none" /\ l.next.name \notin LABEL_TAGS
    THEN kv_clean_text(l.next.text) ELSE value

\* lines 44-47
ParentValue(l, value) ==
    IF TextLen(value) = 0 /\ l.parent_next.name # "none"
    THEN kv_clean_text(l.parent_next.text) ELSE value

\* lines 30-47: the value found for the label
FoundValue(l) == ParentValue(l, SiblingValue(l, DdValue(l)))

\* line 26
KeySkipped(key) == TextLen(key) = 0 \/ TextLen(key) > MAX_KEY_LEN

\* a value of exactly the limit stored too
Storable_Inclusive(value) == TextLen(value) # 0 /\ TextLen(value) <= MAX_VALUE_LEN

\* line 49
Storable(value) == TextLen(value) # 0 /\ TextLen(value) < MAX_VALUE_LEN

\* the first value of a key kept, not the last
Store_KeepFirst(kv, key, value) ==
    IF \E i \in 1..Len(kv) : kv[i][1] = key THEN kv
    ELSE Append(kv, << key, value >>)

\* line 50: key_values[key] = value, the dict as the sequence of its items
Store(kv, key, value) ==
    IF \E i \in 1..Len(kv) : kv[i][1] = key
    THEN [ i \in 1..Len(kv) |-> IF kv[i][1] = key THEN << key, value >> ELSE kv[i] ]
    ELSE Append(kv, << key, value >>)

\* the loop of lines 24-50 from the i-th label on
RECURSIVE KeyValuesFrom(_, _, _)
KeyValuesFrom(ls, i, kv) ==
    IF i > Len(ls) THEN kv
    ELSE LET key == kv_clean_text(ls[i].key)
             value == FoundValue(ls[i])
         IN  IF KeySkipped(key) THEN KeyValuesFrom(ls, i + 1, kv)
             ELSE IF Storable(value) THEN KeyValuesFrom(ls, i + 1, Store(kv, key, value))
             ELSE KeyValuesFrom(ls, i + 1, kv)

\* extract_key_value_pairs(soup), soup holding the labels ls in document order
extract_key_value_pairs(ls) == KeyValuesFrom(ls, 1, << >>)

kvVars == << labels, key_values, kpc >>

IdleKv == labels = << >> /\ key_values = << >> /\ kpc = "idle"

InitKv ==
    /\ labels \in LabelDocs
    /\ key_values = << >>
    /\ kpc = "start"

ExtractKeyValues ==
    /\ kpc = "start"
    /\ key_values' = extract_key_value_pairs(labels)
    /\ kpc' = "done"
    /\ UNCHANGED labels

(***************************************************************************)
(* detail.py: extract_meaningful_links.                                    *)
(***************************************************************************)
MaxAnchors == 2

\* line 126-131
skip_patterns ==
    { <<"#">>,
      <<"j", "a", "v", "a", "s", "c", "r", "i", "p", "t", ":">>,
      <<"m", "a", "i", "l", "t", "o", ":">>,
      <<"t", "e", "l", ":">>,
      <<"/", "l", "o", "g", "i", "n">>,
      <<"/", "r", "e", "g", "i", "s", "t", "e", "r">>,
      <<"/", "s", "i", "g", "n", "u", "p">>,
      <<"/", "l", "o", "g", "o", "u", "t">>,
      <<"f", "a", "c", "e", "b", "o", "o", "k", ".", "c", "o", "m">>,
      <<"t", "w", "i", "t", "t", "e", "r", ".", "c", "o", "m">>,
      <<"l", "i", "n", "k", "e", "d", "i", "n", ".", "c", "o", "m">>,
      <<"i", "n", "s", "t", "a", "g", "r", "a", "m", ".", "c", "o", "m">>,
      <<"y", "o", "u", "t", "u", "b", "e", ".", "c", "o", "m">> }

\* line 142
SYMBOL_TEXTS ==
    { << "#" >>, << ".", ".", "." >>, << "RAQUO" >>, << "LAQUO" >>, << "LARR" >>, << "RARR" >> }

MIN_LINK_TEXT_LEN == 2

\* the schemes of urllib.parse.uses_relative that an input can have
USES_RELATIVE ==
    { << >>, << "h", "t", "t", "p" >>, << "h", "t", "t", "p", "s" >>,
      << "f", "t", "p" >>, << "f", "i", "l", "e" >> }

HrefInputs ==
    { <<>>,
      <<"/", "i", "p", "o">>,
      <<"i", "p", "o">>,
      <<"h", "t", "t", "p", "s", ":", "/", "/", "a", ".", "c", "o", "m", "/", "n", "e", "w", "s", "/", "i", "p", "o">>,
      <<"/", "/", "b", ".", "c", "o", "m", "/", "i", "p", "o">>,
      <<"h", "t", "t", "p", ":", "/", "/", "b", ".", "c", "o", "m", "/", "i", "p", "o">>,
      <<"J", "a", "v", "a", "S", "c", "r", "i", "p", "t", ":", "v", "o", "i", "d", "(", "0", ")">>,
      <<"/", "i", "p", "o", "#", "f", "a", "q">>,
      <<"/", "L", "o", "g", "i", "n">>,
      <<"h", "t", "t", "p", "s", ":", "/", "/", "t", "w", "i", "t", "t", "e", "r", ".", "c", "o", "m", "/", "a">> }

AnchorTexts ==
    { <<"A", "p", "p", "l", "y", " ", "n", "o", "w">>,
      <<" ", "D", "R", "H", "P", " ", " ", "f", "i", "l", "i", "n", "g", " ">>,
      <<".", ".", ".">>,
      << "RAQUO" >> }

BaseUrls ==
    { <<"h", "t", "t", "p", "s", ":", "/", "/", "a", ".", "c", "o", "m", "/", "n", "e", "w", "s", "/", "l", "i", "s", "t">>,
      <<"h", "t", "t", "p", "s", ":", "/", "/", "b", ".", "c", "o", "m", "/">> }

AnchorLists ==
    UNION { [1..n -> [href : HrefInputs, text : AnchorTexts]] : n \in 0..MaxAnchors }

\* the position of the colon that ends the scheme of url, 0 when url has no scheme
SchemeEnd(url) ==
    LET colon == FirstOf(url, { ":" }, 1)
    IN  IF /\ colon <= Len(url) /\ colon > 1 /\ IsLetter(url[1])
           /\ \A j \in 1..(colon - 1) : IsSchemeChar(url[j])
        THEN colon ELSE 0

\* urlparse(url).scheme
url_scheme(url) == str_lower(SubSeq(url, 1, SchemeEnd(url) - 1))

\* urlparse(url).netloc
url_netloc(url) ==
    LET rest == SubSeq(url, SchemeEnd(url) + 1, Len(url))
    IN  IF MatchAt(<< "/", "/" >>, rest, 0)
        THEN SubSeq(rest, 3, FirstOf(rest, { "/", "?", "#" }, 3) - 1)
        ELSE << >>

\* the query and the fragment of url with their marks, as urlunparse puts them back
url_tail(url) ==
    LET rest == SubSeq(url, SchemeEnd(url) + 1, Len(url))
    IN  SubSeq(rest, FirstOf(rest, { "?", "#" }, 1), Len(rest))

\* urlunparse of a scheme, a netloc, a path and a tail
url_unparse(scheme, netloc, path, tail) ==
    LET rooted == IF Len(path) # 0 /\ path[1] # "/" THEN << "/" >> \o path ELSE path
        hier == IF Len(netloc) # 0 THEN << "/", "/" >> \o netloc \o rooted ELSE path
    IN  (IF Len(scheme) # 0 THEN scheme \o << ":" >> ELSE << >>) \o hier \o tail

\* the segments of urljoin after the dot segments are resolved
RECURSIVE ResolveDots(_, _, _)
ResolveDots(segments, i, resolved) ==
    IF i > Len(segments) THEN resolved
    ELSE IF segments[i] = << ".", "." >>
         THEN ResolveDots(segments, i + 1,
                          SubSeq(resolved, 1, IF Len(resolved) = 0 THEN 0 ELSE Len(resolved) - 1))
    ELSE IF segments[i] = << "." >> THEN ResolveDots(segments, i + 1, resolved)
    ELSE ResolveDots(segments, i + 1, Append(resolved, segments[i]))

\* the path of urljoin for a reference with a path and no netloc
JoinedPath(bpath, path) ==
    LET parts == str_split_char(bpath, "/")
        base_parts == IF Len(parts[Len(parts)]) # 0
                      THEN SubSeq(parts, 1, Len(parts) - 1) ELSE parts
        all == base_parts \o str_split_char(path, "/")
        inner == SelectSeq(SubSeq(all, 2, Len(all) - 1), LAMBDA seg : Len(seg) # 0)
        segments == IF path[1] = "/" THEN str_split_char(path, "/")
                    ELSE IF Len(all) < 2 THEN all
                    ELSE << all[1] >> \o inner \o << all[Len(all)] >>
        last == segments[Len(segments)]
        resolved == ResolveDots(segments, 1, << >>)
                       \o (IF last \in { << "." >>, << ".", "." >> } THEN << << >> >> ELSE << >>)
        joined == str_join(<< "/" >>, resolved)
    IN  IF Len(joined) = 0 THEN << "/" >> ELSE joined

\* urllib.parse.urljoin(base, url)
urljoin(base, url) ==
    LET bscheme == url_scheme(base)
        scheme == IF SchemeEnd(url) # 0 THEN url_scheme(url) ELSE bscheme
    IN  IF Len(base) = 0 THEN url
        ELSE IF Len(url) = 0 THEN base
        ELSE IF scheme # bscheme \/ scheme \notin USES_RELATIVE THEN url
        ELSE IF Len(url_netloc(url)) # 0
             THEN url_unparse(scheme, url_netloc(url), url_path(url), url_tail(url))
        ELSE IF Len(url_path(url)) = 0
             THEN url_unparse(scheme, url_netloc(base), url_path(base), url_tail(url))
        ELSE url_unparse(scheme, url_netloc(base),
                         JoinedPath(url_path(base), url_path(url)), url_tail(url))

\* line 138: the href is empty or its lowered form holds one of the patterns
HrefSkipped(href) ==
    Len(href) = 0 \/ \E pattern \in skip_patterns : Contains(pattern, str_lower(href))

\* line 142
TextSkipped(text) == Len(text) < MIN_LINK_TEXT_LEN \/ text \in SYMBOL_TEXTS

\* every link with another netloc than the page called internal too
LinkType_AlwaysInternal(full_url, base) == "internal"

\* line 156
LinkType(full_url, base) ==
    IF url_netloc(full_url) # url_netloc(base) THEN "external" ELSE "internal"

\* a link appended whether or not its url was seen
SeenBefore_Never(full_url, seen_urls) == FALSE

\* line 149
SeenBefore(full_url, seen_urls) == full_url \in seen_urls

\* the loop of lines 133-157 from the i-th anchor on
RECURSIVE LinksFrom(_, _, _, _, _)
LinksFrom(as, base, i, meaningful_links, seen_urls) ==
    IF i > Len(as) THEN meaningful_links
    ELSE LET href == as[i].href
             text == detail_clean_text(as[i].text)
             full_url == urljoin(base, href)
         IN  IF HrefSkipped(href) \/ TextSkipped(text) \/ SeenBefore(full_url, seen_urls)
             THEN LinksFrom(as, base, i + 1, meaningful_links, seen_urls)
             ELSE LinksFrom(as, base, i + 1,
                            Append(meaningful_links,
                                   [text |-> text, url |-> full_url,
                                    type |-> LinkType(full_url, base)]),
                            seen_urls \cup { full_url })

\* extract_meaningful_links(soup, base_url), soup holding the anchors as
extract_meaningful_links(as, base) == LinksFrom(as, base, 1, << >>, { })

linkVars == << anchors, base_url, links, lpc >>

IdleLink == anchors = << >> /\ base_url = << >> /\ links = << >> /\ lpc = "idle"

InitLink ==
    /\ anchors \in AnchorLists
    /\ base_url \in BaseUrls
    /\ links = << >>
    /\ lpc = "start"

ExtractLinks ==
    /\ lpc = "start"
    /\ links' = extract_meaningful_links(anchors, base_url)
    /\ lpc' = "done"
    /\ UNCHANGED << anchors, base_url >>

(***************************************************************************)
(* news_scraper.py: what the four strategies do with one candidate -       *)
(* title, link, summary (section 4.5), validity test, record.  The texts   *)
(* of the elements are run-length encoded, as in extract_key_value_pairs.  *)
(***************************************************************************)
MaxSummaryElems == 4

MaxContextElems == 2

MIN_SUMMARY_CANDIDATE_LEN == 40

MAX_SUMMARY_CANDIDATE_LEN == 500

MAX_SELECTOR_MATCHES == 2

MAX_PARAGRAPHS == 3

SUMMARY_RECORD_LEN == 400

\* lines 262-264: the class words, first as .word then as [class*='word']
SUMMARY_WORDS ==
    << <<"s", "u", "m", "m", "a", "r", "y">>,
       <<"e", "x", "c", "e", "r", "p", "t">>,
       <<"d", "e", "s", "c", "r", "i", "p", "t", "i", "o", "n">>,
       <<"l", "e", "a", "d">>,
       <<"i", "n", "t", "r", "o">> >>

Selector(exact, word) == [exact |-> exact, word |-> word]

summary_selectors ==
    [ i \in 1..(2 * Len(SUMMARY_WORDS)) |->
        IF i <= Len(SUMMARY_WORDS) THEN Selector(TRUE, SUMMARY_WORDS[i])
        ELSE Selector(FALSE, SUMMARY_WORDS[i - Len(SUMMARY_WORDS)]) ]

\* an element of the article: its tag, its class attribute (one class) and its text
Elem(tag, class, text) == [tag |-> tag, class |-> class, text |-> text]

Sentence(run) == Text(<<"S", "t", "o", "c", "k", "s", " ", "r", "o", "s", "e", " ">>, run)

SummaryElemInputs ==
    { Elem("p", << >>, Text(<<" ", "S", "t", "o", "c", "k", "s", " ", " ", "r", "o", "s", "e", " ">>, 28)),
      Elem("p", << >>, Sentence(48)),
      Elem("p", << >>, Text(<<"S", "u", "b", "s", "c", "r", "i", "b", "e", " ", "n", "o", "w", " ">>, 40)),
      Elem("p", << >>, Sentence(588)),
      Elem("div", <<"s", "u", "m", "m", "a", "r", "y">>, Text(<<" ", "S", "t", "o", "c", "k", "s", " ", " ", "r", "o", "s", "e", " ">>, 29)),
      Elem("div", <<"s", "u", "m", "m", "a", "r", "y">>, Sentence(108)),
      Elem("div", <<"s", "u", "m", "m", "a", "r", "y">>, Sentence(488)),
      Elem("div", <<"s", "u", "m", "m", "a", "r", "y">>, Text(<<"S", "u", "b", "s", "c", "r", "i", "b", "e", " ", "n", "o", "w", " ">>, 40)),
      Elem("div", <<"p", "o", "s", "t", "-", "e", "x", "c", "e", "r", "p", "t">>, Sentence(48)),
      Elem("div", <<"p", "o", "s", "t", "-", "e", "x", "c", "e", "r", "p", "t">>, Sentence(487)) }

CandidateTitles ==
    { << >>,
      <<"N", "i", "f", "t", "y", " ", "u", "p", " ", "2", "%", " ", "t", "o", "d", "a", "y">>,
      <<" ", " ", "N", "i", "f", "t", "y", " ", " ", " ", "e", "n", "d", "s", " ", " ">>,
      <<"S", "u", "b", "s", "c", "r", "i", "b", "e", " ", "t", "o", " ", "o", "u", "r", " ", "n", "e", "w", "s", "l", "e", "t", "t", "e", "r">> }

CandidateLinks ==
    { << >>,
      <<"/", "n", "e", "w", "s", "/", "a", "-", "1">>,
      <<"/", "/", "b", ".", "c", "o", "m", "/", "x">> }

\* the url of the page being scraped
SOURCE_URL == <<"h", "t", "t", "p", "s", ":", "/", "/", "a", ".", "c", "o", "m", "/", "n", "e", "w", "s", "/", "l", "i", "s", "t">>

ElemLists(n) == UNION { [1..k -> SummaryElemInputs] : k \in 0..n }

\* clean_text of news_scraper.py on an encoded text
run_clean_text(t) ==
    IF t.run = 0 THEN Text(clean_text(t.head), 0)
    ELSE LET cleaned == clean_text(t.head \o << "x" >>)
         IN  Text(SubSeq(cleaned, 1, Len(cleaned) - 1), t.run)

\* the characters of an encoded text
Expand(t) == t.head \o [ i \in 1..t.run |-> "x" ]

\* the summary as is_valid_article reads it.  Its tests on the summary are substring
\* tests for phrases that hold no x and length tests below SHORT_SUMMARY_LEN, so of a
\* run only the first SHORT_SUMMARY_LEN letters bear on the verdict
AsRead(t) ==
    Expand(Text(t.head, IF t.run < SHORT_SUMMARY_LEN THEN t.run ELSE SHORT_SUMMARY_LEN))

\* text[:n]
run_prefix(t, n) ==
    IF Len(t.head) >= n THEN Text(SubSeq(t.head, 1, n), 0)
    ELSE Text(t.head, IF t.run < n - Len(t.head) THEN t.run ELSE n - Len(t.head))

\* article.select(selector): the elements whose class is the word, or holds it
Selected(elems, selector) ==
    SelectSeq(elems, LAMBDA e : IF selector.exact THEN e.class = selector.word
                                ELSE Contains(selector.word, e.class))

\* the candidate kept whatever its length
GoodSummaryText_AnyLength(text) ==
    /\ TextLen(text) # 0
    /\ ~ \E gs \in GENERIC_SUMMARIES : Contains(gs, str_lower(text.head))

\* lines 268-271 and 279-281: longer than 40, shorter than 500, no generic phrase
GoodSummaryText(text) ==
    /\ TextLen(text) # 0
    /\ TextLen(text) > MIN_SUMMARY_CANDIDATE_LEN
    /\ TextLen(text) < MAX_SUMMARY_CANDIDATE_LEN
    /\ ~ \E gs \in GENERIC_SUMMARIES : Contains(gs, str_lower(text.head))

\* the good texts among the first n elements of a list, in order
GoodTexts(elems, n) ==
    LET first == SubSeq(elems, 1, IF Len(elems) < n THEN Len(elems) ELSE n)
        texts == [ i \in 1..Len(first) |-> run_clean_text(first[i].text) ]
    IN  SelectSeq(texts, GoodSummaryText)

\* lines 262-272: the candidates of the selectors from the i-th selector on,
\* those of one selector after those of the selector before it
SelectorCandidates(elems, i) ==
    Concat([ k \in 1..(Len(summary_selectors) - i + 1) |->
               GoodTexts(Selected(elems, summary_selectors[i + k - 1]),
                         MAX_SELECTOR_MATCHES) ])

\* lines 275-283: the first good text among the first three paragraphs
ParagraphCandidates(elems) ==
    LET good == GoodTexts(SelectSeq(elems, LAMBDA e : e.tag = "p"), MAX_PARAGRAPHS)
    IN  IF Len(good) = 0 THEN << >> ELSE << good[1] >>

\* the first candidate taken, not the longest
Longest_First(candidates) == candidates[1]

\* max(summary_candidates, key=len): the first of the longest
Longest(candidates) ==
    candidates[CHOOSE i \in 1..Len(candidates) :
                  /\ \A j \in 1..Len(candidates) : TextLen(candidates[j]) <= TextLen(candidates[i])
                  /\ \A j \in 1..(i - 1) : TextLen(candidates[j]) < TextLen(candidates[i])]

\* lines 258-288: the summary of scrape_static_article
select_summary(elems) ==
    LET from_selectors == SelectorCandidates(elems, 1)
        summary_candidates == IF Len(from_selectors) # 0 THEN from_selectors
                              ELSE ParagraphCandidates(elems)
    IN  IF Len(summary_candidates) # 0 THEN Longest(summary_candidates) ELSE NoText

\* the summary of the other strategies: the text of the first paragraph found
paragraph_summary(elems) ==
    LET ps == SelectSeq(elems, LAMBDA e : e.tag = "p")
    IN  IF Len(ps) = 0 THEN NoText ELSE run_clean_text(ps[1].text)

StartsWith(prefix, s) == MatchAt(prefix, s, 0)

\* lines 251-256: the link made absolute
resolve_link(url, href) ==
    IF Len(href) = 0 \/ StartsWith(<< "h", "t", "t", "p" >>, href) THEN href
    ELSE IF StartsWith(<< "/", "/" >>, href) THEN << "h", "t", "t", "p", "s", ":" >> \o href
    ELSE IF StartsWith(<< "/" >>, href) THEN urljoin(url, href)
    ELSE href

\* the summary kept whole in the record
record_summary_Whole(sel) == sel

\* summary[:400] if summary else ""
record_summary(sel) == IF TextLen(sel) # 0 THEN run_prefix(sel, SUMMARY_RECORD_LEN) ELSE NoText

\* lines 297-306: the records after a candidate with this title, link and summary
Emitted(by, t, l, sel) ==
    IF is_valid_article(t, AsRead(sel), l) = "True"
    THEN << [title |-> t, link |-> l, summary |-> record_summary(sel), by |-> by] >>
    ELSE << >>

scrapeVars == << strategy, cand, sel_summary, emitted, apc >>

NoCandidate == [raw_title |-> << >>, href |-> << >>, elems |-> << >>]

IdleScrape ==
    /\ strategy = "none" /\ cand = NoCandidate /\ sel_summary = NoText
    /\ emitted = << >> /\ apc = "idle"

\* a static candidate with a good title and any elements, or a candidate of any
\* strategy with any title and link and few elements
InitScrape ==
    /\ \/ /\ strategy = "static"
          /\ \E es \in ElemLists(MaxSummaryElems) :
                cand = [raw_title |-> <<"N", "i", "f", "t", "y", " ", "u", "p", " ", "2", "%", " ", "t", "o", "d", "a", "y">>,
                        href |-> <<"/", "n", "e", "w", "s", "/", "a", "-", "1">>, elems |-> es]
       \/ /\ strategy \in Strategies
          /\ cand \in [raw_title : CandidateTitles, href : CandidateLinks,
                       elems : ElemLists(MaxContextElems)]
    /\ sel_summary = NoText
    /\ emitted = << >>
    /\ apc = "start"

\* the title test that precedes the work on a candidate: line 242 for the static
\* strategy, and with the length test of lines 334, 418 and 503 for the others
TitleSkipped(by, t) == Len(t) = 0 \/ (by # "static" /\ Len(t) < MIN_TITLE_LEN)

\* one candidate through a strategy
Candidate(by) ==
    /\ apc = "start"
    /\ strategy = by
    /\ LET t == clean_text(cand.raw_title)
           l == resolve_link(SOURCE_URL, cand.href)
           sel == IF by = "static" THEN select_summary(cand.elems)
                  ELSE paragraph_summary(cand.elems)
       IN  IF TitleSkipped(by, t)
           THEN sel_summary' = NoText /\ emitted' = << >>
           ELSE sel_summary' = sel /\ emitted' = Emitted(by, t, l, sel)
    /\ apc' = "done"
    /\ UNCHANGED << strategy, cand >>

\* scrape_static_article, lines 236-306
StaticArticle == Candidate("static")

\* scrape_headlines, lines 331-373
HeadlineArticle == Candidate("headlines")

\* crawl_pages, lines 407-455
CrawledArticle == Candidate("crawl")

\* scrape_js, lines 496-533
JsArticle == Candidate("js")

(***************************************************************************)
(* The three clean_text normalizers (news_scraper.py, detail.py and        *)
(* scrapper.py), each applied to a string and then to its own result.      *)
(***************************************************************************)
MaxChars == 4

MOJIBAKE_RUPEE == << "A_CIRC", "LOW9", "SUP1" >>

CleanAlphabet == { " ", "\n", "NBSP", "A_CIRC", "LOW9", "SUP1", "RSQUO", "a" }

CleanInputs == UNION { [ 1..n -> CleanAlphabet ] : n \in 0..MaxChars }

\* clean_text of scrapper.py: the replacements first, then " ".join(text.split())
scrapper_clean_text(text) ==
    IF Len(text) = 0 THEN << >>
    ELSE LET fixed == str_replace(
                        str_replace(text, MOJIBAKE_RUPEE, << "RUPEE" >>),
                        << "NBSP" >>, << " " >>)
         IN  str_join(<< " " >>, str_split(fixed))

\* the clean_text of the named file
CleanBy(file, text) ==
    CASE file = "news_scraper" -> clean_text(text)
      [] file = "detail"       -> detail_clean_text(text)
      [] file = "scrapper"     -> scrapper_clean_text(text)

cleanVars == << raw_text, cleaner, cleaned_once, cleaned_twice, xpc >>

IdleClean ==
    raw_text = << >> /\ cleaner = "none" /\ cleaned_once = << >> /\ cleaned_twice = << >> /\ xpc = "idle"

InitClean ==
    /\ raw_text \in CleanInputs
    /\ cleaner = "none" /\ cleaned_once = << >> /\ cleaned_twice = << >> /\ xpc = "start"

\* clean_text(s), by the normalizer of the named file
CleanOnce(file) ==
    /\ xpc = "start"
    /\ cleaner' = file
    /\ cleaned_once' = CleanBy(file, raw_text)
    /\ xpc' = "once"
    /\ UNCHANGED << raw_text, cleaned_twice >>

CleanNews == CleanOnce("news_scraper")

CleanDetail == CleanOnce("detail")

CleanScrapper == CleanOnce("scrapper")

\* clean_text(clean_text(s)): the same normalizer on its own result
CleanAgain ==
    /\ xpc = "once"
    /\ cleaned_twice' = CleanBy(cleaner, cleaned_once)
    /\ xpc' = "twice"
    /\ UNCHANGED << raw_text, cleaner, cleaned_once >>

(***************************************************************************)
(* is_valid_article called on its own (news_scraper.py lines 58-116), with *)
(* any title: also one that no clean_text has normalized.                  *)
(***************************************************************************)
MaxBlankTitle == 16

\* titles of whitespace only, around the minimum title length
BlankTitles ==
    { [ i \in 1..n |-> c ] : n \in (MIN_TITLE_LEN - 1)..MaxBlankTitle, c \in SpaceSet }

ArgTitles ==
    { << >> } \cup BlankTitles \cup
    { [ i \in 1..MIN_TITLE_LEN |-> " " ] \o << "a" >> } \cup
    { str_join(<< " " >>, << a, b >>) : a \in TitleFragments, b \in TitleFragments }

callVars == << arg_title, arg_summary, arg_link, verdict, ipc >>

IdleCall ==
    /\ arg_title = << >> /\ arg_summary = << >> /\ arg_link = << >>
    /\ verdict = "none" /\ ipc = "idle"

InitCall ==
    /\ arg_title \in ArgTitles
    /\ arg_summary \in SummaryInputs
    /\ arg_link \in LinkInputs
    /\ verdict = "none" /\ ipc = "call"

\* is_valid_article(title, summary, link): the value returned or the exception raised
CallIsValidArticle ==
    /\ ipc = "call"
    /\ verdict' = is_valid_article(arg_title, arg_summary, arg_link)
    /\ ipc' = "returned"
    /\ UNCHANGED << arg_title, arg_summary, arg_link >>

(***************************************************************************)
(* detail.py: scrape_all_tabs (lines 251-323).  The navigation tabs of the *)
(* base page are the anchors soup.select(".nav.nav-tabs a") returns, in    *)
(* document order; a dict is the sequence of its items in insertion order. *)
(***************************************************************************)
MaxTabs == 2

MAIN_TAB == <<"I", "P", "O", " ", "D", "e", "t", "a", "i", "l">>

TabTexts ==
    { << >>,
      <<"I", "P", "O", " ", "D", "e", "t", "a", "i", "l">>,
      <<" ", "F", "i", "n", "a", "n", "c", "i", "a", "l", "s", " ">>,
      <<"O", "v", "e", "r", "v", "i", "e", "w">> }

TabHrefs ==
    { << >>,
      <<"/", "i", "p", "o", "/", "x", "/", "1", "/">>,
      <<"/", "i", "p", "o", "/", "x", "/", "f", "i", "n", "/">>,
      <<"h", "t", "t", "p", "s", ":", "/", "/", "a", ".", "c", "o", "m", "/", "i", "p", "o", "/", "x", "/", "f", "i", "n", "/">> }

TabBaseUrls ==
    { <<"h", "t", "t", "p", "s", ":", "/", "/", "a", ".", "c", "o", "m", "/", "i", "p", "o", "/", "x", "/", "1", "/">> }

NavTabLists ==
    UNION { [ 1..n -> [text : TabTexts, href : TabHrefs] ] : n \in 0..MaxTabs }

\* the code point of a character of a tab name
CodePoint(c) ==
    IF c \in UpperSet THEN 64 + CHOOSE i \in 1..26 : UpperLetters[i] = c
    ELSE IF c \in LowerSet THEN 96 + CHOOSE i \in 1..26 : LowerLetters[i] = c
    ELSE IF c \in DigitSet THEN 48 + DigitValue[c]
    ELSE 32

\* a < b for two str
StrLess(a, b) ==
    \E k \in 1..(Len(b)) :
        /\ \A j \in 1..(k - 1) : j <= Len(a) /\ a[j] = b[j]
        /\ k > Len(a) \/ CodePoint(a[k]) < CodePoint(b[k])

\* lines 280-287: tab_links after the loop over the navigation tabs
RECURSIVE NavLinksFrom(_, _, _, _)
NavLinksFrom(tabs_in, base, i, tab_links_in) ==
    IF i > Len(tabs_in) THEN tab_links_in
    ELSE LET tab_name == detail_clean_text(tabs_in[i].text)
             tab_url  == urljoin(base, tabs_in[i].href)
         IN  IF Len(tab_name) = 0 THEN NavLinksFrom(tabs_in, base, i + 1, tab_links_in)
             ELSE NavLinksFrom(tabs_in, base, i + 1, Store(tab_links_in, tab_name, tab_url))

\* lines 293-298: the first tab of each URL is kept
RECURSIVE UniqueTabsFrom(_, _, _, _)
UniqueTabsFrom(items, i, unique_tabs, seen) ==
    IF i > Len(items) THEN unique_tabs
    ELSE IF items[i][2] \in seen THEN UniqueTabsFrom(items, i + 1, unique_tabs, seen)
    ELSE UniqueTabsFrom(items, i + 1, Append(unique_tabs, items[i]), seen \cup { items[i][2] })

\* line 299: dict(sorted(unique_tabs.items())), the names being distinct
RECURSIVE SortedItems(_)
SortedItems(items) ==
    IF Len(items) = 0 THEN << >>
    ELSE LET m == CHOOSE i \in 1..Len(items) :
                      \A j \in 1..Len(items) : j # i => StrLess(items[i][1], items[j][1])
         IN  << items[m] >>
             \o SortedItems([ j \in 1..(Len(items) - 1) |-> IF j < m THEN items[j] ELSE items[j + 1] ])

\* lines 277-299: tab_links of a base page with the navigation tabs tabs_in
TabLinks(tabs_in, base) ==
    LET with_main == Store(NavLinksFrom(tabs_in, base, 1, << >>), MAIN_TAB, base)
    IN  SortedItems(UniqueTabsFrom(with_main, 1, << >>, { }))

tabsVars == << tab_base, nav_tabs, tab_links, scraped_tabs, qpc >>

IdleTabs ==
    /\ tab_base = << >> /\ nav_tabs = << >> /\ tab_links = << >>
    /\ scraped_tabs = << >> /\ qpc = "idle"

InitTabs ==
    /\ tab_base \in TabBaseUrls
    /\ nav_tabs \in NavTabLists
    /\ tab_links = << >> /\ scraped_tabs = << >> /\ qpc = "fetch"

\* lines 256-261: the base page cannot be fetched, {"error": ...} is returned
FetchBaseFails ==
    /\ qpc = "fetch"
    /\ qpc' = "error"
    /\ UNCHANGED << tab_base, nav_tabs, tab_links, scraped_tabs >>

\* lines 259, 277-299: the base page is fetched and its tabs are collected
FindTabs ==
    /\ qpc = "fetch"
    /\ tab_links' = TabLinks(nav_tabs, tab_base)
    /\ qpc' = "scrape"
    /\ UNCHANGED << tab_base, nav_tabs, scraped_tabs >>

\* lines 308-321: the next tab is scraped; its entry holds the page data with its
\* url, or an error when the page cannot be fetched
ScrapeTab ==
    /\ qpc = "scrape"
    /\ Len(scraped_tabs) < Len(tab_links)
    /\ \E fetched \in BOOLEAN :
          LET tab == tab_links[Len(scraped_tabs) + 1]
          IN  scraped_tabs' =
                  Append(scraped_tabs,
                         [name |-> tab[1], fetched |-> fetched,
                          url |-> IF fetched THEN tab[2] ELSE << >>])
    /\ UNCHANGED << tab_base, nav_tabs, tab_links, qpc >>

\* line 323: return all_data
ReturnTabs ==
    /\ qpc = "scrape"
    /\ Len(scraped_tabs) = Len(tab_links)
    /\ qpc' = "done"
    /\ UNCHANGED << tab_base, nav_tabs, tab_links, scraped_tabs >>

(***************************************************************************)
(* scrapers-file/news_scraper.py: scrape_rss_feed and scrape_article.  An  *)
(* item of the feed is given by its link, title, description and pubDate   *)
(* children, each present or not; the page behind a link, when it can be   *)
(* fetched, by the title and the content scrape_article reads from it.     *)
(***************************************************************************)
MaxItems == 3

DEFAULT_MAX_ARTICLES == 10

SmallFeedLimit == 2

NO_TITLE == <<"N", "o", " ", "t", "i", "t", "l", "e">>

NoChild == [present |-> FALSE, text |-> << >>]

Child(text) == [present |-> TRUE, text |-> text]

RssItem(l, t, d, p) == [link |-> l, title |-> t, description |-> d, pubDate |-> p]

ItemInputs ==
    { RssItem(Child(<<" ", "h", "t", "t", "p", "s", ":", "/", "/", "a", ".", "c", "o", "m", "/", "1", " ">>),
              Child(<<" ", "R", "a", "t", "e", "s", " ", "h", "e", "l", "d", " ">>),
              Child(<<"R", "a", "t", "e", "s", " ", "w", "e", "r", "e", " ", "h", "e", "l", "d", ".">>),
              Child(<<"M", "o", "n", ",", " ", "0", "2", " ", "N", "o", "v">>)),
      RssItem(Child(<<"h", "t", "t", "p", "s", ":", "/", "/", "a", ".", "c", "o", "m", "/", "2">>),
              NoChild, NoChild, NoChild),
      RssItem(Child(<<"h", "t", "t", "p", "s", ":", "/", "/", "a", ".", "c", "o", "m", "/", "2">>),
              Child(<<"R", "B", "I", " ", "k", "e", "e", "p", "s", " ", "r", "a", "t", "e", "s">>),
              NoChild,
              Child(<<"M", "o", "n", ",", " ", "0", "2", " ", "N", "o", "v">>)),
      RssItem(NoChild,
              Child(<<"R", "B", "I", " ", "k", "e", "e", "p", "s", " ", "r", "a", "t", "e", "s">>),
              NoChild, NoChild),
      RssItem(Child(<<" ", "\n", " ">>),
              Child(<<"R", "B", "I", " ", "k", "e", "e", "p", "s", " ", "r", "a", "t", "e", "s">>),
              NoChild, NoChild) }

FeedInputs == UNION { [ 1..n -> ItemInputs ] : n \in 0..MaxItems }

\* what scrape_article reads from a fetched page: the title and the joined paragraphs
ArticlePages ==
    { [title |-> <<"R", "B", "I", " ", "k", "e", "e", "p", "s", " ", "r", "a", "t", "e", "s">>,
       content |-> <<"R", "a", "t", "e", "s", " ", "w", "e", "r", "e", " ", "h", "e", "l", "d", ".">>],
      [title |-> NO_TITLE, content |-> << >>] }

RSS_SOURCE == <<"F", "e", "e", "d", " ", "A">>

RSS_COUNTRY == <<"C", "a", "n", "a", "d", "a">>

\* elem.text.strip() if elem else default
ChildText(child, default) == IF child.present THEN str_strip(child.text) ELSE default

\* items[:max_articles]
FeedSlice(items, limit) == SubSeq(items, 1, IF Len(items) < limit THEN Len(items) ELSE limit)

\* lines 187-193: the item has no link element, or its stripped link is empty
LinkMissing(item) == ~item.link.present \/ Len(str_strip(item.link.text)) = 0

\* lines 209-213: the record of a scraped page, with the metadata of the feed added
ScrapedRecord(item, pg) ==
    [ title |-> pg.title, link |-> str_strip(item.link.text), content |-> pg.content,
      source |-> RSS_SOURCE, source_country |-> RSS_COUNTRY,
      description |-> ChildText(item.description, << >>),
      published_date |-> ChildText(item.pubDate, << >>) ]

\* the item dropped when its page cannot be scraped
FallbackRecords_None(item) == << >>

\* lines 215-225: the record of an item whose page could not be scraped
FallbackRecords(item) ==
    << [ title |-> ChildText(item.title, NO_TITLE), link |-> str_strip(item.link.text),
         content |-> << >>,
         source |-> RSS_SOURCE, source_country |-> RSS_COUNTRY,
         description |-> ChildText(item.description, << >>),
         published_date |-> ChildText(item.pubDate, << >>) ] >>

\* page_failed records, for each item passed, whether scrape_article returned None
rssVars == << feed_items, max_articles, item_idx, page_failed, rss_articles, rpc >>

IdleRss ==
    /\ feed_items = << >> /\ max_articles = 0 /\ item_idx = 0
    /\ page_failed = << >> /\ rss_articles = << >> /\ rpc = "idle"

InitRss ==
    /\ feed_items \in FeedInputs
    /\ max_articles \in { SmallFeedLimit, DEFAULT_MAX_ARTICLES }
    /\ item_idx = 0 /\ page_failed = << >> /\ rss_articles = << >> /\ rpc = "fetch"

\* lines 170-171, 234-239: the feed cannot be fetched; the empty list is returned
FetchFeedFails ==
    /\ rpc = "fetch"
    /\ rpc' = "failed"
    /\ UNCHANGED << feed_items, max_articles, item_idx, page_failed, rss_articles >>

\* lines 170-181: the feed is fetched; without items the empty list is returned
FetchFeed ==
    /\ rpc = "fetch"
    /\ item_idx' = 1
    /\ rpc' = IF Len(feed_items) = 0 THEN "done" ELSE "items"
    /\ UNCHANGED << feed_items, max_articles, page_failed, rss_articles >>

\* lines 184-193: the next item has no usable link and is passed over
SkipItem ==
    /\ rpc = "items"
    /\ item_idx <= Len(FeedSlice(feed_items, max_articles))
    /\ LinkMissing(feed_items[item_idx])
    /\ item_idx' = item_idx + 1
    /\ page_failed' = Append(page_failed, FALSE)
    /\ UNCHANGED << feed_items, max_articles, rss_articles, rpc >>

\* lines 184-213: the page of the next item is scraped and its record appended
ScrapeItem ==
    /\ rpc = "items"
    /\ item_idx <= Len(FeedSlice(feed_items, max_articles))
    /\ ~LinkMissing(feed_items[item_idx])
    /\ \E pg \in ArticlePages :
          rss_articles' = Append(rss_articles, ScrapedRecord(feed_items[item_idx], pg))
    /\ item_idx' = item_idx + 1
    /\ page_failed' = Append(page_failed, FALSE)
    /\ UNCHANGED << feed_items, max_articles, rpc >>

\* lines 184-207, 214-225: scrape_article returns None (lines 146-148) and the
\* data of the feed is saved
ScrapeItemFails ==
    /\ rpc = "items"
    /\ item_idx <= Len(FeedSlice(feed_items, max_articles))
    /\ ~LinkMissing(feed_items[item_idx])
    /\ rss_articles' = rss_articles \o FallbackRecords(feed_items[item_idx])
    /\ item_idx' = item_idx + 1
    /\ page_failed' = Append(page_failed, TRUE)
    /\ UNCHANGED << feed_items, max_articles, rpc >>

\* line 239: return articles
ReturnArticles ==
    /\ rpc = "items"
    /\ item_idx > Len(FeedSlice(feed_items, max_articles))
    /\ rpc' = "done"
    /\ UNCHANGED << feed_items, max_articles, item_idx, page_failed, rss_articles >>

(***************************************************************************)
(* news_scraper.py: one extraction pass over the candidates of a page, in  *)
(* document order, with its seen_titles set (lines 234, 329, 386, 494).    *)
(***************************************************************************)
MaxPassCandidates == 2

PassTitles ==
    { <<"N", "i", "f", "t", "y", " ", "u", "p", " ", "2", "%", " ", "t", "o", "d", "a", "y">>,
      <<" ", "N", "i", "f", "t", "y", " ", " ", "u", "p", " ", "2", "%", " ", "t", "o", "d", "a", "y", " ">>,
      <<"S", "e", "n", "s", "e", "x", " ", "f", "a", "l", "l", "s", " ", "3", "0", "0", " ", "p", "o", "i", "n", "t", "s">> }

PassHrefs == { << >>, <<"/", "n", "e", "w", "s", "/", "a", "-", "1">> }

PassElems == { << >>, << Elem("p", << >>, Sentence(48)) >> }

PassCandidateLists ==
    UNION { [ 1..n -> [raw_title : PassTitles, href : PassHrefs, elems : PassElems] ]
            : n \in 0..MaxPassCandidates }

\* lines 245, 338, 420, 506: seen_titles.add(title.lower()), before the link, the
\* summary and the validity test
SeenAfter(seen, t) == seen \cup { str_lower(t) }

passVars == << pass_by, pass_cands, pass_idx, seen_titles, pass_out, ppc >>

IdlePass ==
    /\ pass_by = "none" /\ pass_cands = << >> /\ pass_idx = 0
    /\ seen_titles = { } /\ pass_out = << >> /\ ppc = "idle"

InitPass ==
    /\ pass_by \in Strategies
    /\ pass_cands \in PassCandidateLists
    /\ pass_idx = 1 /\ seen_titles = { } /\ pass_out = << >> /\ ppc = "loop"

\* the body of the loop of strategy by on the next candidate
PassCandidate(by) ==
    /\ ppc = "loop"
    /\ pass_by = by
    /\ pass_idx <= Len(pass_cands)
    /\ LET c == pass_cands[pass_idx]
           t == clean_text(c.raw_title)
           l == resolve_link(SOURCE_URL, c.href)
           sel == IF by = "static" THEN select_summary(c.elems)
                  ELSE paragraph_summary(c.elems)
       IN  IF TitleSkipped(by, t) \/ str_lower(t) \in seen_titles
           THEN UNCHANGED << seen_titles, pass_out >>
           ELSE /\ seen_titles' = SeenAfter(seen_titles, t)
                /\ pass_out' = pass_out \o Emitted(by, t, l, sel)
    /\ pass_idx' = pass_idx + 1
    /\ UNCHANGED << pass_by, pass_cands, ppc >>

\* scrape_static_article, lines 236-306
StaticCandidate == PassCandidate("static")

\* scrape_headlines, lines 331-373
HeadlineCandidate == PassCandidate("headlines")

\* crawl_pages, lines 407-455
CrawlCandidate == PassCandidate("crawl")

\* scrape_js, lines 496-533
JsCandidate == PassCandidate("js")

\* lines 308, 375, 468, 535: the pass returns its records
ReturnPass ==
    /\ ppc = "loop"
    /\ pass_idx > Len(pass_cands)
    /\ ppc' = "done"
    /\ UNCHANGED << pass_by, pass_cands, pass_idx, seen_titles, pass_out >>

(***************************************************************************)
(* scrapers-file/ipo_scraper.py: main, download_csv, find_downloaded_csv,  *)
(* csv_to_json and the two clean-ups.  The download directory is a map     *)
(* from file names to files; a file has the origin of its content - the    *)
(* export it was downloaded from, or "earlier" for a file that was in the  *)
(* directory before the run - and a modification time.                     *)
(***************************************************************************)
MAINBOARD_CSV == "main-ipo.csv"

SME_CSV == "sme-ipo.csv"

\* the name the browser saves an export under, when it is not the expected name
EXPORT_NAME == "export.csv"

\* a CSV file of the directory that is none of the scraper's
OTHER_CSV == "other.csv"

CsvNames == { MAINBOARD_CSV, SME_CSV, EXPORT_NAME, OTHER_CSV }

NoFile == [present |-> FALSE, origin |-> "none", mtime |-> 0]

File(origin, mtime) == [present |-> TRUE, origin |-> origin, mtime |-> mtime]

\* the directories the run can start in
StartDirs ==
    { [ f \in CsvNames |->
          IF f \in old THEN File("earlier", IF f = OTHER_CSV THEN 1 ELSE IF f = MAINBOARD_CSV THEN 2 ELSE 3)
          ELSE NoFile ] : old \in SUBSET { MAINBOARD_CSV, SME_CSV, OTHER_CSV } }

\* what can happen after download_csv is called: the export button cannot be
\* clicked, the export is saved under some name, or no file arrives in time
DownloadOutcomes(csv_path) ==
    { [kind |-> "no_click", name |-> "none"], [kind |-> "timeout", name |-> "none"] }
    \cup { [kind |-> "saved", name |-> n] : n \in { EXPORT_NAME, csv_path } }

\* os.remove(path)
Removed(dir, path) == [dir EXCEPT ![path] = NoFile]

\* os.rename(src, dst)
Renamed(dir, src, dst) == [dir EXCEPT ![dst] = dir[src], ![src] = NoFile]

\* find_downloaded_csv(download_dir): the most recently modified CSV file
find_downloaded_csv(dir) ==
    LET csv_files == { f \in CsvNames : dir[f].present }
    IN  IF csv_files = { } THEN "none"
        ELSE CHOOSE f \in csv_files : \A g \in csv_files : dir[g].mtime <= dir[f].mtime

\* lines 257-267: after the wait has timed out
AfterTimeout(dir, csv_path) ==
    LET found_csv == find_downloaded_csv(dir)
    IN  IF found_csv # "none" /\ found_csv # csv_path
        THEN [dir |-> Renamed(IF dir[csv_path].present THEN Removed(dir, csv_path) ELSE dir,
                              found_csv, csv_path),
              ok |-> TRUE]
        ELSE [dir |-> dir, ok |-> FALSE]

\* download_csv(driver, url, csv_path, button_xpath, file_type) in the directory
\* dir at time now, with the given outcome: the directory after it and the value
\* returned
download_csv(dir, now, csv_path, file_type, outcome) ==
    LET existing_files == { f \in CsvNames : dir[f].present }
        arrived == [dir EXCEPT ![outcome.name] = File(file_type, now)]
    IN  IF outcome.kind = "no_click" THEN [dir |-> dir, ok |-> FALSE]
        ELSE IF dir[csv_path].present THEN [dir |-> dir, ok |-> TRUE]
        ELSE IF outcome.kind = "saved"
             THEN IF outcome.name = csv_path THEN [dir |-> arrived, ok |-> TRUE]
                  ELSE IF outcome.name \notin existing_files
                       THEN [dir |-> Renamed(arrived, outcome.name, csv_path), ok |-> TRUE]
                  ELSE AfterTimeout(arrived, csv_path)
        ELSE AfterTimeout(dir, csv_path)

\* csv_to_json(csv_path, json_path, file_type): the origin of the data written to
\* the JSON file, "none" when the CSV file is not there
csv_to_json(dir, csv_path) == IF dir[csv_path].present THEN dir[csv_path].origin ELSE "none"

ipoVars == << download_dir, ipo_clock, mainboard_success, sme_success,
              mainboard_json, sme_json, ipo_pc >>

IdleIpo ==
    /\ download_dir = [ f \in CsvNames |-> NoFile ] /\ ipo_clock = 0
    /\ mainboard_success = FALSE /\ sme_success = FALSE
    /\ mainboard_json = "none" /\ sme_json = "none" /\ ipo_pc = "idle"

InitIpo ==
    /\ download_dir \in StartDirs /\ ipo_clock = 3
    /\ mainboard_success = FALSE /\ sme_success = FALSE
    /\ mainboard_json = "none" /\ sme_json = "none" /\ ipo_pc = "cleanup"

\* cleanup_old_files (lines 332-341): the old CSV files are removed, except those
\* whose removal fails
CleanupOldFiles ==
    /\ ipo_pc = "cleanup"
    /\ \E kept \in SUBSET { f \in { MAINBOARD_CSV, SME_CSV } : download_dir[f].present } :
          download_dir' = [ f \in CsvNames |->
                              IF f \in { MAINBOARD_CSV, SME_CSV } \ kept THEN NoFile
                              ELSE download_dir[f] ]
    /\ ipo_pc' = "mainboard"
    /\ UNCHANGED << ipo_clock, mainboard_success, sme_success, mainboard_json, sme_json >>

\* lines 380-386
DownloadMainboard ==
    /\ ipo_pc = "mainboard"
    /\ \E outcome \in DownloadOutcomes(MAINBOARD_CSV) :
          LET r == download_csv(download_dir, ipo_clock + 1, MAINBOARD_CSV, "Mainboard", outcome)
          IN  download_dir' = r.dir /\ mainboard_success' = r.ok
    /\ ipo_clock' = ipo_clock + 1
    /\ ipo_pc' = "sme"
    /\ UNCHANGED << sme_success, mainboard_json, sme_json >>

\* lines 389-395
DownloadSme ==
    /\ ipo_pc = "sme"
    /\ \E outcome \in DownloadOutcomes(SME_CSV) :
          LET r == download_csv(download_dir, ipo_clock + 1, SME_CSV, "SME", outcome)
          IN  download_dir' = r.dir /\ sme_success' = r.ok
    /\ ipo_clock' = ipo_clock + 1
    /\ ipo_pc' = "convert"
    /\ UNCHANGED << mainboard_success, mainboard_json, sme_json >>

\* lines 398-405: the conversions of the downloads that succeeded
ConvertToJson ==
    /\ ipo_pc = "convert"
    /\ mainboard_json' = IF mainboard_success THEN csv_to_json(download_dir, MAINBOARD_CSV)
                         ELSE "none"
    /\ sme_json' = IF sme_success THEN csv_to_json(download_dir, SME_CSV) ELSE "none"
    /\ ipo_pc' = "remove"
    /\ UNCHANGED << download_dir, ipo_clock, mainboard_success, sme_success >>

\* lines 408-409 and 429: cleanup_csv_files removes the two CSV files
CleanupCsvFiles ==
    /\ ipo_pc = "remove"
    /\ download_dir' = Removed(Removed(download_dir, MAINBOARD_CSV), SME_CSV)
    /\ ipo_pc' = "done"
    /\ UNCHANGED << ipo_clock, mainboard_success, sme_success, mainboard_json, sme_json >>

(***************************************************************************)
(* detail.py: extract_content_sections on a document whose blocks nest.    *)
(* soup.find_all([...]) returns every matching element of the tree in      *)
(* document order, a container before the elements inside it, and the      *)
(* get_text() of a container is the text of everything inside it.  The     *)
(* document is a sequence of top-level nodes: a heading or a paragraph, or *)
(* a div whose children are headings and paragraphs.                       *)
(***************************************************************************)
MaxTopNodes == 2

MaxKids == 2

LeafInputs ==
    { Element(<< "h", "2" >>, <<"X">>),
      Element(<< "h", "2" >>, <<"Y">>),
      Element(<< "p" >>, <<"I", "s", "s", "u", "e", " ", "o", "p", "e", "n", "s", " ", "o", "n", " ", "M", "o", "n", "d", "a", "y">>),
      Element(<< "p" >>, <<"L", "i", "s", "t", "i", "n", "g", " ", "o", "n", " ", "N", "S", "E", " ", "a", "n", "d", " ", "B", "S", "E">>) }

Leaf(e) == [name |-> e.name, text |-> e.text, kids |-> << >>]

Container(kids) == [name |-> << "d", "i", "v" >>, text |-> << >>, kids |-> kids]

TopNodes ==
    { Leaf(e) : e \in LeafInputs }
    \cup { Container(kids) : kids \in UNION { [ 1..n -> LeafInputs ] : n \in 1..MaxKids } }

Documents == UNION { [ 1..n -> TopNodes ] : n \in 0..MaxTopNodes }

\* element.get_text(): the texts inside the element, joined
RECURSIVE TextsJoined(_)
TextsJoined(kids) ==
    IF Len(kids) = 0 THEN << >> ELSE kids[1].text \o TextsJoined(Tail(kids))

get_text(node) == IF Len(node.kids) = 0 THEN node.text ELSE TextsJoined(node.kids)

\* line 168: soup.find_all(['h1', ..., 'h6', 'p', 'div']), each element with its text
RECURSIVE find_all(_)
find_all(doc) ==
    IF Len(doc) = 0 THEN << >>
    ELSE << Element(doc[1].name, get_text(doc[1])) >> \o doc[1].kids \o find_all(Tail(doc))

nestVars == << document, found_elements, nested_sections, npc >>

IdleNest ==
    document = << >> /\ found_elements = << >> /\ nested_sections = << >> /\ npc = "idle"

InitNest ==
    /\ document \in Documents
    /\ found_elements = << >> /\ nested_sections = << >> /\ npc = "start"

\* extract_content_sections(soup), lines 162-192
ExtractNestedSections ==
    /\ npc = "start"
    /\ found_elements' = find_all(document)
    /\ nested_sections' = extract_content_sections(find_all(document))
    /\ npc' = "done"
    /\ UNCHANGED document

(***************************************************************************)
(* Specifications: one per component, each leaving the others idle.        *)
(***************************************************************************)
InitValid ==
    /\ raw_title \in RawTitles /\ summary \in SummaryInputs /\ link \in LinkInputs
    /\ title = << >> /\ valid = "none" /\ vpc = "candidate"

InitCheck ==
    /\ date_str \in DateInputs
    /\ date_ok = FALSE /\ date_clean = << >> /\ dpc = "start"

NextValid ==
    Classify /\ UNCHANGED << mergeVars, checkVars, extractVars, catVars, tableVars, sectVars, kvVars, linkVars, scrapeVars, cleanVars, callVars, tabsVars, rssVars, passVars, ipoVars, nestVars >>

NextMerge ==
    /\ \/ ScrapeStatic
       \/ ScrapeHeadlines
       \/ CrawlPages
       \/ ScrapeJs
       \/ SkipJs
       \/ DedupSite
       \/ NextSite
       \/ ReturnNews
    /\ UNCHANGED << validVars, checkVars, extractVars, catVars, tableVars, sectVars, kvVars, linkVars, scrapeVars, cleanVars, callVars, tabsVars, rssVars, passVars, ipoVars, nestVars >>

NextCheck ==
    /\ ValidateDate \/ CleanDate
    /\ UNCHANGED << validVars, mergeVars, extractVars, catVars, tableVars, sectVars, kvVars, linkVars, scrapeVars, cleanVars, callVars, tabsVars, rssVars, passVars, ipoVars, nestVars >>

NextExtract ==
    ExtractDate /\ UNCHANGED << validVars, mergeVars, checkVars, catVars, tableVars, sectVars, kvVars, linkVars, scrapeVars, cleanVars, callVars, tabsVars, rssVars, passVars, ipoVars, nestVars >>

NextCat ==
    ExtractCategory /\ UNCHANGED << validVars, mergeVars, checkVars, extractVars, tableVars, sectVars, kvVars, linkVars, scrapeVars, cleanVars, callVars, tabsVars, rssVars, passVars, ipoVars, nestVars >>

NextTable ==
    ExtractTables /\ UNCHANGED << validVars, mergeVars, checkVars, extractVars, catVars, sectVars, kvVars, linkVars, scrapeVars, cleanVars, callVars, tabsVars, rssVars, passVars, ipoVars, nestVars >>

NextSect ==
    /\ ExtractSections
    /\ UNCHANGED << validVars, mergeVars, checkVars, extractVars, catVars, tableVars, kvVars, linkVars, scrapeVars, cleanVars, callVars, tabsVars, rssVars, passVars, ipoVars, nestVars >>

NextKv ==
    /\ ExtractKeyValues
    /\ UNCHANGED << validVars, mergeVars, checkVars, extractVars, catVars, tableVars, sectVars, linkVars, scrapeVars, cleanVars, callVars, tabsVars, rssVars, passVars, ipoVars, nestVars >>

NextLink ==
    /\ ExtractLinks
    /\ UNCHANGED << validVars, mergeVars, checkVars, extractVars, catVars, tableVars, sectVars, kvVars, scrapeVars, cleanVars, callVars, tabsVars, rssVars, passVars, ipoVars, nestVars >>

NextScrape ==
    /\ \/ StaticArticle
       \/ HeadlineArticle
       \/ CrawledArticle
       \/ JsArticle
    /\ UNCHANGED << validVars, mergeVars, checkVars, extractVars, catVars, tableVars, sectVars, kvVars, linkVars, cleanVars, callVars, tabsVars, rssVars, passVars, ipoVars, nestVars >>

NextClean ==
    /\ \/ CleanNews \/ CleanDetail \/ CleanScrapper \/ CleanAgain
    /\ UNCHANGED << validVars, mergeVars, checkVars, extractVars, catVars, tableVars, sectVars, kvVars, linkVars, scrapeVars, callVars, tabsVars, rssVars, passVars, ipoVars, nestVars >>

NextCall ==
    /\ CallIsValidArticle
    /\ UNCHANGED << validVars, mergeVars, checkVars, extractVars, catVars, tableVars, sectVars, kvVars, linkVars, scrapeVars, cleanVars, tabsVars, rssVars, passVars, ipoVars, nestVars >>

NextTabs ==
    /\ \/ FetchBaseFails \/ FindTabs \/ ScrapeTab \/ ReturnTabs
    /\ UNCHANGED << validVars, mergeVars, checkVars, extractVars, catVars, tableVars, sectVars, kvVars, linkVars, scrapeVars, cleanVars, callVars, rssVars, passVars, ipoVars, nestVars >>

NextRss ==
    /\ \/ FetchFeedFails \/ FetchFeed \/ SkipItem \/ ScrapeItem \/ ScrapeItemFails \/ ReturnArticles
    /\ UNCHANGED << validVars, mergeVars, checkVars, extractVars, catVars, tableVars, sectVars, kvVars, linkVars, scrapeVars, cleanVars, callVars, tabsVars, passVars, ipoVars, nestVars >>

NextPass ==
    /\ \/ StaticCandidate \/ HeadlineCandidate \/ CrawlCandidate \/ JsCandidate \/ ReturnPass
    /\ UNCHANGED << validVars, mergeVars, checkVars, extractVars, catVars, tableVars, sectVars, kvVars, linkVars, scrapeVars, cleanVars, callVars, tabsVars, rssVars, ipoVars, nestVars >>

NextIpo ==
    /\ \/ CleanupOldFiles \/ DownloadMainboard \/ DownloadSme \/ ConvertToJson \/ CleanupCsvFiles
    /\ UNCHANGED << validVars, mergeVars, checkVars, extractVars, catVars, tableVars, sectVars, kvVars, linkVars, scrapeVars, cleanVars, callVars, tabsVars, rssVars, passVars, nestVars >>

NextNest ==
    /\ ExtractNestedSections
    /\ UNCHANGED << validVars, mergeVars, checkVars, extractVars, catVars, tableVars, sectVars, kvVars, linkVars, scrapeVars, cleanVars, callVars, tabsVars, rssVars, passVars, ipoVars >>

\* the validity classifier on the candidates of a pass
StartValid ==
    InitValid /\ IdleMerge /\ IdleCheck /\ IdleExtract /\ IdleCat /\ IdleTable /\ IdleSect /\ IdleKv /\ IdleLink /\ IdleScrape /\ IdleClean /\ IdleCall /\ IdleTabs /\ IdleRss /\ IdlePass /\ IdleIpo /\ IdleNest

SpecValid == StartValid /\ [][NextValid]_vars

\* run_super_scraper
StartMerge ==
    IdleValid /\ InitMerge /\ IdleCheck /\ IdleExtract /\ IdleCat /\ IdleTable /\ IdleSect /\ IdleKv /\ IdleLink /\ IdleScrape /\ IdleClean /\ IdleCall /\ IdleTabs /\ IdleRss /\ IdlePass /\ IdleIpo /\ IdleNest

SpecMerge == StartMerge /\ [][NextMerge]_vars

\* validate_date and clean_date on one string
StartCheck ==
    IdleValid /\ IdleMerge /\ InitCheck /\ IdleExtract /\ IdleCat /\ IdleTable /\ IdleSect /\ IdleKv /\ IdleLink /\ IdleScrape /\ IdleClean /\ IdleCall /\ IdleTabs /\ IdleRss /\ IdlePass /\ IdleIpo /\ IdleNest

SpecCheck == StartCheck /\ [][NextCheck]_vars

\* extract_date on one page
StartExtract ==
    IdleValid /\ IdleMerge /\ IdleCheck /\ InitExtract /\ IdleCat /\ IdleTable /\ IdleSect /\ IdleKv /\ IdleLink /\ IdleScrape /\ IdleClean /\ IdleCall /\ IdleTabs /\ IdleRss /\ IdlePass /\ IdleIpo /\ IdleNest

SpecExtract == StartExtract /\ [][NextExtract]_vars

\* extract_category on one page and URL
StartCat ==
    IdleValid /\ IdleMerge /\ IdleCheck /\ IdleExtract /\ InitCat /\ IdleTable /\ IdleSect /\ IdleKv /\ IdleLink /\ IdleScrape /\ IdleClean /\ IdleCall /\ IdleTabs /\ IdleRss /\ IdlePass /\ IdleIpo /\ IdleNest

SpecCat == StartCat /\ [][NextCat]_vars

\* extract_structured_tables on one table
StartTable ==
    IdleValid /\ IdleMerge /\ IdleCheck /\ IdleExtract /\ IdleCat /\ InitTable /\ IdleSect /\ IdleKv /\ IdleLink /\ IdleScrape /\ IdleClean /\ IdleCall /\ IdleTabs /\ IdleRss /\ IdlePass /\ IdleIpo /\ IdleNest

SpecTable == StartTable /\ [][NextTable]_vars

\* extract_content_sections on one sequence of elements
StartSect ==
    IdleValid /\ IdleMerge /\ IdleCheck /\ IdleExtract /\ IdleCat /\ IdleTable /\ InitSect /\ IdleKv /\ IdleLink /\ IdleScrape /\ IdleClean /\ IdleCall /\ IdleTabs /\ IdleRss /\ IdlePass /\ IdleIpo /\ IdleNest

SpecSect == StartSect /\ [][NextSect]_vars

\* extract_key_value_pairs on one sequence of labels
StartKv ==
    IdleValid /\ IdleMerge /\ IdleCheck /\ IdleExtract /\ IdleCat /\ IdleTable /\ IdleSect /\ InitKv /\ IdleLink /\ IdleScrape /\ IdleClean /\ IdleCall /\ IdleTabs /\ IdleRss /\ IdlePass /\ IdleIpo /\ IdleNest

SpecKv == StartKv /\ [][NextKv]_vars

\* extract_meaningful_links on the anchors of one page
StartLink ==
    IdleValid /\ IdleMerge /\ IdleCheck /\ IdleExtract /\ IdleCat /\ IdleTable /\ IdleSect /\ IdleKv /\ InitLink /\ IdleScrape /\ IdleClean /\ IdleCall /\ IdleTabs /\ IdleRss /\ IdlePass /\ IdleIpo /\ IdleNest

SpecLink == StartLink /\ [][NextLink]_vars

\* one candidate through one of the four strategies
StartScrape ==
    IdleValid /\ IdleMerge /\ IdleCheck /\ IdleExtract /\ IdleCat /\ IdleTable /\ IdleSect /\ IdleKv /\ IdleLink /\ InitScrape /\ IdleClean /\ IdleCall /\ IdleTabs /\ IdleRss /\ IdlePass /\ IdleIpo /\ IdleNest

SpecScrape == StartScrape /\ [][NextScrape]_vars

\* the clean_text normalizers applied once and twice
StartClean ==
    IdleValid /\ IdleMerge /\ IdleCheck /\ IdleExtract /\ IdleCat /\ IdleTable /\ IdleSect /\ IdleKv /\ IdleLink /\ IdleScrape /\ InitClean /\ IdleCall /\ IdleTabs /\ IdleRss /\ IdlePass /\ IdleIpo /\ IdleNest

SpecClean == StartClean /\ [][NextClean]_vars

\* is_valid_article on any title, summary and link
StartCall ==
    IdleValid /\ IdleMerge /\ IdleCheck /\ IdleExtract /\ IdleCat /\ IdleTable /\ IdleSect /\ IdleKv /\ IdleLink /\ IdleScrape /\ IdleClean /\ InitCall /\ IdleTabs /\ IdleRss /\ IdlePass /\ IdleIpo /\ IdleNest

SpecCall == StartCall /\ [][NextCall]_vars

\* scrape_all_tabs on one base page
StartTabs ==
    IdleValid /\ IdleMerge /\ IdleCheck /\ IdleExtract /\ IdleCat /\ IdleTable /\ IdleSect /\ IdleKv /\ IdleLink /\ IdleScrape /\ IdleClean /\ IdleCall /\ InitTabs /\ IdleRss /\ IdlePass /\ IdleIpo /\ IdleNest

SpecTabs == StartTabs /\ [][NextTabs]_vars

\* scrape_rss_feed on one feed
StartRss ==
    IdleValid /\ IdleMerge /\ IdleCheck /\ IdleExtract /\ IdleCat /\ IdleTable /\ IdleSect /\ IdleKv /\ IdleLink /\ IdleScrape /\ IdleClean /\ IdleCall /\ IdleTabs /\ InitRss /\ IdlePass /\ IdleIpo /\ IdleNest

SpecRss == StartRss /\ [][NextRss]_vars

\* one extraction pass with its seen_titles
StartPass ==
    IdleValid /\ IdleMerge /\ IdleCheck /\ IdleExtract /\ IdleCat /\ IdleTable /\ IdleSect /\ IdleKv /\ IdleLink /\ IdleScrape /\ IdleClean /\ IdleCall /\ IdleTabs /\ IdleRss /\ InitPass /\ IdleIpo /\ IdleNest

SpecPass == StartPass /\ [][NextPass]_vars

\* the IPO scraper run: the two downloads, then the conversions
StartIpo ==
    IdleValid /\ IdleMerge /\ IdleCheck /\ IdleExtract /\ IdleCat /\ IdleTable /\ IdleSect /\ IdleKv /\ IdleLink /\ IdleScrape /\ IdleClean /\ IdleCall /\ IdleTabs /\ IdleRss /\ IdlePass /\ InitIpo /\ IdleNest

SpecIpo == StartIpo /\ [][NextIpo]_vars

\* extract_content_sections on a document with nested blocks
StartNest ==
    IdleValid /\ IdleMerge /\ IdleCheck /\ IdleExtract /\ IdleCat /\ IdleTable /\ IdleSect /\ IdleKv /\ IdleLink /\ IdleScrape /\ IdleClean /\ IdleCall /\ IdleTabs /\ IdleRss /\ IdlePass /\ IdleIpo /\ InitNest

SpecNest == StartNest /\ [][NextNest]_vars

\* any one of the components
Init ==
    StartValid \/ StartMerge \/ StartCheck \/ StartExtract \/ StartCat \/ StartTable \/ StartSect \/ StartKv \/ StartLink \/ StartScrape \/ StartClean \/ StartCall \/ StartTabs \/ StartRss \/ StartPass \/ StartIpo \/ StartNest

Next == NextValid \/ NextMerge \/ NextCheck \/ NextExtract \/ NextCat \/ NextTable \/ NextSect \/ NextKv \/ NextLink \/ NextScrape \/ NextClean \/ NextCall \/ NextTabs \/ NextRss \/ NextPass \/ NextIpo \/ NextNest

Spec == Init /\ [][Next]_vars

(***************************************************************************)
(* Properties.                                                             *)
(***************************************************************************)
NoneOf(t, cs) == ~ \E i \in 1..Len(t) : t[i] \in cs

\* the bare-name condition as section 4.2 words it, on the title itself
BareName(t) ==
    /\ Len(str_split(t)) <= 2
    /\ NoneOf(t, DigitSet)
    /\ \/ str_isupper(t)
       \/ Len(t) # 0 /\ t[1] \in UpperSet /\ NoneOf(t, { ":", "-", "?", "!" })

\* C1: a title of at most two words, without a digit, that is all-uppercase or starts
\* with an uppercase letter and has none of : - ? !, is rejected for every summary
\* and link.
C1_BareNameRejected ==
    (vpc = "done" /\ BareName(title)) => valid = "False"

C3_NavigationTitleRejected ==
    (vpc = "done" /\ str_lower(title) \in NAVIGATION_TITLES) => valid = "False"

\* a navigation title written with capitals, of 15 characters or more, with a link and
\* a long summary
C3_Witness ==
    /\ vpc = "done" /\ valid = "False"
    /\ str_lower(title) \in NAVIGATION_TITLES /\ title # str_lower(title)
    /\ Len(title) >= 15
    /\ Len(link) # 0 /\ Len(summary) > 40

\* the ten rejection conditions of section 4.2, on a normalized title
Listed(t, s, l) ==
    \/ Len(t) < 15
    \/ str_lower(t) \in NAVIGATION_TITLES
    \/ \E k \in NOISE_KEYWORDS : Contains(k, str_lower(t)) \/ Contains(k, str_lower(s))
    \/ str_lower(t) \in TRIVIAL_TITLES
    \/ str_lower(t) \in SECTION_HEADER_TITLES
    \/ BareName(t)
    \/ Len(l) = 0 /\ (Len(s) = 0 \/ Len(s) < 20)
    \/ /\ Len(s) # 0
       /\ \/ \E g \in GENERIC_SUMMARIES : Contains(g, str_lower(s))
          \/ Len(s) < 30 /\ \E w \in FILLER_WORDS : Contains(w, str_lower(s))
    \/ (str_isupper(t) \/ Len(str_split(t)) <= 2) /\ NoneOf(t, { ":", "-", "?", "!", "," })
    \/ \E x \in section_indicators : Contains(x, str_lower(t))

\* the tests of the code, taken in the reverse of the order the code makes them in
RejectedInReverse(t, s, l) ==
    LET tl == str_strip(str_lower(t))
        sl == str_lower(s)
    IN  \/ HasSectionIndicator(tl)
        \/ LooksLikeNavigation(t)
        \/ IsGenericSummary(s, sl)
        \/ NoLinkNoSummary(s, l)
        \/ Len(tl) # 0 /\ LooksLikeCompanyName(t, tl)
        \/ IsSectionHeaderTitle(tl)
        \/ IsTrivialTitle(tl)
        \/ HasNoiseKeyword(tl, sl)
        \/ IsNavigationTitle(tl)
        \/ TitleTooShort(t)

\* C4: a candidate for which none of the ten listed conditions holds is accepted, and
\* the result is the same in whatever order the conditions are evaluated.
C4_AcceptOtherwise ==
    vpc = "done" =>
        /\ ~Listed(title, summary, link) => valid = "True"
        /\ valid = "True" <=> ~RejectedInReverse(title, summary, link)

\* an accepted candidate
C4_Witness ==
    /\ vpc = "done" /\ valid = "True"
    /\ ~Listed(title, summary, link)

\* the keys of the records of a list
KeyOf(r) == str_strip(str_lower(r.title))

\* the records of l the merge has to keep, given the keys met before: those with a
\* non-empty key that no earlier record of l and no record before l has
FirstMet(l, before) ==
    LET keep == { i \in 1..Len(l) :
                    /\ Len(KeyOf(l[i])) # 0
                    /\ KeyOf(l[i]) \notin before
                    /\ \A j \in 1..(i - 1) : KeyOf(l[j]) # KeyOf(l[i]) }
        RECURSIVE From(_)
        From(i) == IF i > Len(l) THEN << >>
                   ELSE IF i \in keep THEN << l[i] >> \o From(i + 1)
                   ELSE From(i + 1)
    IN  From(1)

FromSite(news, site) == SelectSeq(news, LAMBDA r : r.source = site)

BeforeSite(news, site) == SelectSeq(news, LAMBDA r : r.source < site)

IsPrefix(a, b) == Len(a) <= Len(b) /\ SubSeq(b, 1, Len(a)) = a

\* final_news has no two records with the same key; once a site is merged, the part
\* of final_news that comes from it is the first-met records of site_articles, behind
\* the records of the sites before
MergedFirstMet ==
    /\ \A i, j \in 1..Len(final_news) :
          i # j => KeyOf(final_news[i]) # KeyOf(final_news[j])
    /\ mpc \in { "next", "done" } =>
          /\ final_news = BeforeSite(final_news, site_idx) \o FromSite(final_news, site_idx)
          /\ FromSite(final_news, site_idx) =
                FirstMet(site_articles,
                         { KeyOf(BeforeSite(final_news, site_idx)[i]) :
                             i \in 1..Len(BeforeSite(final_news, site_idx)) })

\* C5: after the merge final_news holds no two records with the same lowercased,
\* trimmed title; the record kept for a key is the first one met in processing order
\* (sites in order, within a site static, headline, page crawler, JS), every later
\* one is dropped, and a record once kept stays.
C5_FirstSeenKept ==
    /\ [](MergedFirstMet)
    /\ [][IsPrefix(final_news, final_news')]_vars

\* two strategies of one site returned the same title (up to case): the record of the
\* earlier strategy is in final_news, the later one is not
C5_Witness ==
    /\ mpc = "done"
    /\ \E i, j \in 1..Len(site_articles) :
          /\ i < j
          /\ KeyOf(site_articles[i]) = KeyOf(site_articles[j])
          /\ site_articles[i].title # site_articles[j].title
          /\ \E k \in 1..Len(final_news) : final_news[k] = site_articles[i]
          /\ \A k \in 1..Len(final_news) : final_news[k] # site_articles[j]
    /\ Len(final_news) >= 2

\* the candidates of a page in the order of the claim: the time element's value, the
\* four attributes, the match of each pattern in the node's text, the four meta tags
DateCandidates(pg) ==
    LET matches == [ p \in 1..NumPatterns |-> re_search(p, ElemText(pg)) ]
        RECURSIVE Found(_)
        Found(p) == IF p > NumPatterns THEN << >>
                    ELSE (IF matches[p].found THEN << matches[p].text >> ELSE << >>)
                         \o Found(p + 1)
    IN  (IF pg.elem
         THEN (IF HasTimeTag(pg) THEN << TimeCandidate(pg) >> ELSE << >>)
              \o [ i \in 1..Len(DATE_ATTRS) |-> pg.val[DATE_ATTRS[i]] ]
              \o Found(1)
         ELSE << >>)
        \o [ i \in 1..Len(META_DATES) |-> pg.val[META_DATES[i]] ]

\* the cleaned first candidate that validates, the empty string when none does
RECURSIVE FirstValidated(_)
FirstValidated(cs) ==
    IF Len(cs) = 0 THEN << >>
    ELSE IF Len(cs[1]) # 0 /\ validate_date(cs[1]) THEN clean_date(cs[1])
    ELSE FirstValidated(Tail(cs))

\* C6: extract_date returns the cleaned value of the first candidate that validates,
\* in the order time element, node attributes, regex matches in the node's text, page
\* meta tags; the empty string only when no candidate validates.
C6_FirstValidatedWins ==
    epc = "done" => date_result = FirstValidated(DateCandidates(page))

\* the places where the pattern 20[2-3]d matches
YearStarts(s) ==
    { i \in 1..(Len(s) - 3) :
        s[i] = "2" /\ s[i + 1] = "0" /\ s[i + 2] \in { "2", "3" } /\ s[i + 3] \in DigitSet }

\* the four characters at i read 2020 .. 2030
TokenInWindow(s, i) == s[i + 2] = "2" \/ (s[i + 2] = "3" /\ s[i + 3] = "0")

\* C7: validate_date accepts a string exactly when it contains neither 00-00 nor 00/00,
\* it has a year token matching 20[2-3]d (the leftmost one is taken) and that token is
\* in 2020..2030; 15 Jan 2031 is rejected and 2024-03-10 is accepted.
C7_ValidateDate ==
    dpc \in { "validated", "done" } =>
        /\ date_ok <=>
              /\ ~Contains(<< "0", "0", "-", "0", "0" >>, date_str)
              /\ ~Contains(<< "0", "0", "/", "0", "0" >>, date_str)
              /\ YearStarts(date_str) # {}
              /\ TokenInWindow(date_str,
                               CHOOSE i \in YearStarts(date_str) :
                                   \A j \in YearStarts(date_str) : i <= j)
        /\ date_str = <<"1", "5", " ", "J", "a", "n", " ", "2", "0", "3", "1">> => ~date_ok
        /\ date_str = <<"2", "0", "2", "4", "-", "0", "3", "-", "1", "0">> => date_ok

\* 2024-03-10 has been accepted
C7_Witness ==
    /\ dpc = "validated" /\ date_ok
    /\ date_str = <<"2", "0", "2", "4", "-", "0", "3", "-", "1", "0">>

\* every string that stands on the page where extract_date looks
PageStrings(pg) ==
    { pg.val[s] : s \in Slots } \cup { str_strip(pg.val["time.text"]) } \cup
    { SubSeq(ElemText(pg), i, PatternEnd(p, ElemText(pg), i) - 1) :
        p \in 1..NumPatterns,
        i \in { k \in 1..Len(ElemText(pg)) : \E q \in 1..NumPatterns : PatternEnd(q, ElemText(pg), k) # 0 } }

\* C8: the value extract_date returns is the empty string or clean_date of a string
\* that validate_date accepted.
C8_DateValidatedAndCleaned ==
    epc = "done" =>
        \/ date_result = << >>
        \/ \E c \in PageStrings(page) : validate_date(c) /\ date_result = clean_date(c)

\* a date with a UTC offset was found, validated and returned without the offset
C8_Witness ==
    /\ epc = "done"
    /\ date_result = <<"2", "0", "2", "4", "-", "0", "3", "-", "1", "0", "T", "0", "9", ":", "0", "0", ":", "0", "0">>
    /\ \E s \in Slots : page.val[s] = <<"2", "0", "2", "4", "-", "0", "3", "-", "1", "0", "T", "0", "9", ":", "0", "0", ":", "0", "0", "+", "0", "5", ":", "3", "0">>

\* the non-empty segments of a path
PathSegments(path) == SelectSeq(str_split_char(path, "/"), LAMBDA seg : Len(seg) # 0)

\* C9: without category metadata extract_category returns the first non-empty segment
\* of the URL's path, hyphens replaced by spaces, title-cased, whenever the path has a
\* non-empty segment (a path of one segment included); it returns the empty string
\* only when neither the metadata nor the URL path yields a value.
C9_CategoryFromFirstSegment ==
    cpc = "done" =>
        LET segs == PathSegments(url_path(cat_url))
        IN  /\ (cat_page.present = {} /\ Len(segs) # 0) =>
                  category = str_title(str_replace(segs[1], << "-" >>, << " " >>))
            /\ category = << >> =>
                  /\ \A s \in CatSlots : Len(cat_page.val[s]) = 0
                  /\ Len(segs) = 0

\* the texts of the rows of a body group that have a cell
BodyRowTexts(rows) == SelectSeq([ i \in 1..Len(rows) |-> CellTexts(rows[i]) ],
                                LAMBDA r : Len(r) # 0)

\* an emitted row holds the cell texts of a source row: as a list, or as a mapping
\* from the headers
HoldsCells(headers, rec, texts) ==
    \/ rec.kind = "list" /\ rec.items = texts
    \/ /\ rec.kind = "dict"
       /\ Len(texts) = Len(headers)
       /\ \A i \in 1..Len(rec.items) :
             \E j \in 1..Len(headers) :
                 rec.items[i][1] = headers[j] /\ rec.items[i][2] = texts[j]
       /\ \A j \in 1..Len(headers) :
             \E i \in 1..Len(rec.items) : rec.items[i][1] = headers[j]

\* the rows of the one table record, none when the table is not emitted
EmittedRows == IF Len(tables) = 0 THEN << >> ELSE tables[1].rows

EmittedHeaders == IF Len(tables) = 0 THEN << >> ELSE tables[1].headers

\* C10: for a table with a tbody the emitted rows are all rows of the tbody that have
\* a cell, in order; none is dropped, also when the headers come from the table's first
\* row for lack of a thead.
C10_AllBodyRowsEmitted ==
    (tpc = "done" /\ table.tbody.present) =>
        LET want == BodyRowTexts(table.tbody.rows)
        IN  /\ Len(EmittedRows) = Len(want)
            /\ \A k \in 1..Len(want) : HoldsCells(EmittedHeaders, EmittedRows[k], want[k])

\* the position, among the rows of the table, of the row consumed as the header row:
\* the first row of the thead, else the first row when the headers came from it; 0 when
\* no row was consumed
HeaderRowPos(t) ==
    IF t.thead.present THEN (IF Len(t.thead.rows) # 0 THEN 1 ELSE 0)
    ELSE IF Len(FirstRowHeaders(t)) # 0 THEN 1 ELSE 0

\* the rows of the table without the row at position p
RowsWithout(rows, p) ==
    [ i \in 1..(Len(rows) - (IF p = 0 THEN 0 ELSE 1)) |->
        IF p # 0 /\ i >= p THEN rows[i + 1] ELSE rows[i] ]

\* C11: for a table without a tbody the emitted rows are every row of the table that
\* has a cell, except the row consumed as the header row, whether that row came from a
\* thead or was the first row; the header row is not emitted as a data row as well.
C11_HeaderRowNotEmitted ==
    (tpc = "done" /\ ~table.tbody.present) =>
        LET want == BodyRowTexts(RowsWithout(AllRows(table), HeaderRowPos(table)))
        IN  /\ Len(EmittedRows) = Len(want)
            /\ \A k \in 1..Len(want) : HoldsCells(EmittedHeaders, EmittedRows[k], want[k])

\* the body rows as section 4.5 words them: the rows of the tbody when there is one,
\* else all rows minus the consumed header row
BodyRows(t) ==
    IF t.tbody.present THEN t.tbody.rows
    ELSE RowsWithout(AllRows(t), HeaderRowPos(t))

\* the emitted form of a row with the cell texts `texts`: a mapping with one key per
\* distinct header, each holding the cell under the last header of that text, when the
\* counts agree; the plain sequence of the texts otherwise
Materialized(headers, rec, texts) ==
    IF Len(texts) = Len(headers)
    THEN /\ rec.kind = "dict"
         /\ \A i, j \in 1..Len(rec.items) : rec.items[i][1] = rec.items[j][1] => i = j
         /\ { rec.items[i][1] : i \in 1..Len(rec.items) }
                = { headers[j] : j \in 1..Len(headers) }
         /\ \A i \in 1..Len(rec.items) :
               \E j \in 1..Len(headers) :
                   /\ headers[j] = rec.items[i][1]
                   /\ \A k \in (j + 1)..Len(headers) : headers[k] # headers[j]
                   /\ rec.items[i][2] = texts[j]
    ELSE rec.kind = "list" /\ rec.items = texts

\* the rows the loop of lines 99-111 visits and keeps
VisitedRows(t) ==
    LET src == RowsSource(t)
        from == StartIdx(t, TableHeaders(t)) + 1
    IN  BodyRowTexts(SubSeq(src, from, Len(src)))

\* every row the loop keeps is emitted in the form of lines 107-111
EmittedAsMaterialized ==
    tpc = "done" =>
        /\ Len(EmittedRows) = Len(VisitedRows(table))
        /\ \A k \in 1..Len(EmittedRows) :
              Materialized(EmittedHeaders, EmittedRows[k], VisitedRows(table)[k])

\* C12: each body row with cells is emitted, as a mapping header -> cell when its cell
\* count equals the header count (a repeated header keeping the last cell), as the
\* plain sequence of its cell texts otherwise; headers [A, B] with the single body row
\* [1, 2] give rows = [{A: 1, B: 2}].
C12_RowsMaterialized ==
    tpc = "done" =>
        LET want == BodyRowTexts(BodyRows(table))
        IN  /\ Len(EmittedRows) = Len(want)
            /\ \A k \in 1..Len(want) : Materialized(EmittedHeaders, EmittedRows[k], want[k])

\* a repeated header with a row of as many cells: the mapping has one key
DuplicateHeaderRow ==
    /\ tpc = "done"
    /\ EmittedHeaders = << << "A" >>, << "A" >> >>
    /\ \E k \in 1..Len(EmittedRows) :
          EmittedRows[k] = [kind |-> "dict", items |-> << << << "A" >>, << "2", " ", "k" >> >> >>]

\* the positions of the headings among the elements
HeadingPositions == { i \in 1..Len(elements) : elements[i].name \in HEADING_TAGS }

\* the position of the next heading after position h, Len(elements) + 1 when none
NextHeading(h) ==
    LET later == { j \in HeadingPositions : j > h }
    IN  IF later = {} THEN Len(elements) + 1
        ELSE CHOOSE j \in later : \A k \in later : j <= k

\* a block whose normalized text is longer than 20 and holds no boilerplate phrase,
\* whatever the case of its letters
QualifyingBlock(i) ==
    LET text == detail_clean_text(elements[i].text)
    IN  /\ elements[i].name \in BLOCK_TAGS
        /\ Len(text) > 20
        /\ \A phrase \in BOILERPLATE : ~Contains(phrase, str_lower(text))

\* the qualifying blocks after the heading at h and before the next heading
BlocksUnder(h) == { i \in (h + 1)..(NextHeading(h) - 1) : QualifyingBlock(i) }

\* the positions of a set, in increasing order
RECURSIVE InOrder(_)
InOrder(S) ==
    IF S = {} THEN << >>
    ELSE LET least == CHOOSE i \in S : \A j \in S : i <= j
         IN  << least >> \o InOrder(S \ { least })

\* C13: no emitted section has empty content and every level is in 1..6; a heading
\* with no qualifying block before the next heading or the end gives no section, so
\* the sequence [h2 X, h2 Y, qualifying p] gives exactly one section, headed Y.
C13_NoEmptySection ==
    spc = "done" =>
        /\ \A k \in 1..Len(sections) :
              Len(sections[k].content) # 0 /\ sections[k].level \in 1..6
        /\ Len(sections) = Cardinality({ h \in HeadingPositions : BlocksUnder(h) # {} })
        /\ ( /\ Len(elements) = 3
             /\ HeadingPositions = { 1, 2 }
             /\ QualifyingBlock(3) ) =>
                 /\ Len(sections) = 1
                 /\ sections[1].heading = detail_clean_text(elements[2].text)

C13_Witness ==
    /\ spc = "done"
    /\ elements = << Element(<< "h", "2" >>, << "X" >>),
                     Element(<< "h", "2" >>, << " ", " ", "Y", " " >>),
                     Element(<< "p" >>, <<"I", "s", "s", "u", "e", " ", "o", "p", "e", "n", "s", " ", "o", "n", " ", "M", "o", "n", "d", "a", "y", " ", "n", "e", "x", "t", " ", "w", "e", "e", "k">>) >>
    /\ Len(sections) = 1
    /\ sections[1].heading = << "Y" >>
    /\ sections[1].level = 2

\* C14: the sections are those of the headings that have a qualifying block, in the
\* order of the headings, and the content of each is the list, in order, of the
\* normalized texts of the qualifying blocks between its heading and the next one;
\* a block before the first heading is in no section.
C14_SectionContent ==
    spc = "done" =>
        LET kept == InOrder({ h \in HeadingPositions : BlocksUnder(h) # {} })
        IN  /\ Len(sections) = Len(kept)
            /\ \A k \in 1..Len(kept) :
                  LET blocks == InOrder(BlocksUnder(kept[k]))
                  IN  /\ sections[k].heading = detail_clean_text(elements[kept[k]].text)
                      /\ sections[k].content =
                            [ b \in 1..Len(blocks) |-> detail_clean_text(elements[blocks[b]].text) ]

\* a qualifying block before the first heading, and under the heading a block with a
\* boilerplate phrase followed by a qualifying one
C14_Witness ==
    /\ spc = "done"
    /\ Len(elements) = 4
    /\ HeadingPositions = { 2 }
    /\ QualifyingBlock(1)
    /\ ~QualifyingBlock(3)
    /\ Contains(<< "c", "o", "o", "k", "i", "e" >>, str_lower(elements[3].text))
    /\ QualifyingBlock(4)
    /\ Len(sections) = 1
    /\ Len(sections[1].content) = 1

\* the value candidates of a label in the order of section 4.6: the dd sibling, the
\* next sibling when it is not label-like, the next sibling of the parent
ValueCandidates(l) ==
    << FindDd(l),
       IF l.next.name \in LABEL_TAGS THEN NoNode ELSE l.next,
       l.parent_next >>

\* a candidate that is there, non-empty and under 500 characters once normalized
UsableCandidate(node) ==
    /\ node.name # "none"
    /\ TextLen(kv_clean_text(node.text)) \in 1..(MAX_VALUE_LEN - 1)

\* the keys of the returned mapping
StoredKeys == { key_values[i][1] : i \in 1..Len(key_values) }

\* the value the returned mapping holds for a key it has
StoredValue(key) ==
    key_values[CHOOSE i \in 1..Len(key_values) : key_values[i][1] = key][2]

\* the labels whose normalized key is the key of label i
SameKey(i) ==
    { j \in 1..Len(labels) : kv_clean_text(labels[j].key) = kv_clean_text(labels[i].key) }

\* C15: a label (with a key of 1..100 characters met once in the document) is stored
\* exactly when one of its value candidates - the dd sibling, the next sibling that is
\* not label-like, the next sibling of the parent, in that order - is non-empty and
\* under 500 characters, and its value is the first such candidate.
C15_FirstUsableCandidate ==
    kpc = "done" =>
        \A i \in 1..Len(labels) :
            LET key == kv_clean_text(labels[i].key)
                cands == ValueCandidates(labels[i])
                usable == { c \in 1..3 : UsableCandidate(cands[c]) }
            IN  (~KeySkipped(key) /\ SameKey(i) = { i }) =>
                    /\ key \in StoredKeys <=> usable # {}
                    /\ usable # {} =>
                          /\ key \in StoredKeys
                          /\ StoredValue(key) =
                                kv_clean_text(cands[CHOOSE c \in usable :
                                                       \A d \in usable : c <= d].text)

\* C16: the returned mapping has unique keys, each of 1..100 characters with a value
\* of 1..499 characters, and the value of a key is the one found for the last label
\* of that key whose value was storable; a later label of the key whose value is
\* dropped leaves the earlier value in place.
C16_UniqueKeysLastWins ==
    kpc = "done" =>
        LET storing == { i \in 1..Len(labels) :
                           /\ TextLen(kv_clean_text(labels[i].key)) \in 1..MAX_KEY_LEN
                           /\ TextLen(FoundValue(labels[i])) \in 1..(MAX_VALUE_LEN - 1) }
        IN  /\ \A i, j \in 1..Len(key_values) : key_values[i][1] = key_values[j][1] => i = j
            /\ \A i \in 1..Len(key_values) :
                  /\ TextLen(key_values[i][1]) \in 1..MAX_KEY_LEN
                  /\ TextLen(key_values[i][2]) \in 1..(MAX_VALUE_LEN - 1)
            /\ StoredKeys = { kv_clean_text(labels[i].key) : i \in storing }
            /\ \A i \in storing :
                  (\A j \in storing : j > i => j \notin SameKey(i)) =>
                      StoredValue(kv_clean_text(labels[i].key)) = FoundValue(labels[i])

\* two labels of one key: the first is stored with one value, the second found a
\* different storable value, and the mapping holds the second
C16_Witness ==
    /\ kpc = "done"
    /\ Len(labels) = 2
    /\ SameKey(1) = { 1, 2 }
    /\ TextLen(FoundValue(labels[1])) \in 1..(MAX_VALUE_LEN - 1)
    /\ TextLen(FoundValue(labels[2])) \in 1..(MAX_VALUE_LEN - 1)
    /\ FoundValue(labels[1]) # FoundValue(labels[2])
    /\ Len(key_values) = 1
    /\ key_values[1][2] = FoundValue(labels[2])

\* two labels of one key: the value of the second is dropped and the first stays
LaterDroppedKeepsEarlier ==
    /\ kpc = "done"
    /\ Len(labels) = 2
    /\ SameKey(1) = { 1, 2 }
    /\ TextLen(FoundValue(labels[1])) \in 1..(MAX_VALUE_LEN - 1)
    /\ TextLen(FoundValue(labels[2])) = MAX_VALUE_LEN
    /\ Len(key_values) = 1
    /\ key_values[1][2] = FoundValue(labels[1])

\* an href that is empty or holds '#', javascript:, mailto:, tel: or one of the listed
\* social and sign-in substrings, whatever the case of its letters
ExcludedHref(href) ==
    Len(href) = 0 \/ \E pattern \in skip_patterns : Contains(pattern, str_lower(href))

\* the anchors an output record can come from: they resolve to its url, have its text
\* and no excluded href
OriginsOf(rec) ==
    { i \in 1..Len(anchors) :
        /\ ~ExcludedHref(anchors[i].href)
        /\ urljoin(base_url, anchors[i].href) = rec.url
        /\ detail_clean_text(anchors[i].text) = rec.text }

\* an href without scheme and without host, to be resolved on the host of the page
RelativeHref(href) == SchemeEnd(href) = 0 /\ Len(url_netloc(href)) = 0

\* C17: a record is internal exactly when the host (netloc) of its resolved url is
\* the host of the base url, external otherwise; a record from a relative href is
\* internal, one from an href that names another host is external, and every record
\* comes from an anchor whose href holds no javascript: nor any other skip pattern.
C17_LinkClassified ==
    lpc = "done" =>
        \A k \in 1..Len(links) :
            /\ links[k].type \in { "internal", "external" }
            /\ links[k].type = "internal" <=>
                  url_netloc(links[k].url) = url_netloc(base_url)
            /\ OriginsOf(links[k]) # { }
            /\ ~Contains(<< "j", "a", "v", "a", "s", "c", "r", "i", "p", "t", ":" >>,
                         str_lower(links[k].url))
            /\ \A i \in OriginsOf(links[k]) :
                  /\ RelativeHref(anchors[i].href) => links[k].type = "internal"
                  /\ url_netloc(anchors[i].href) \notin { << >>, url_netloc(base_url) } =>
                        links[k].type = "external"

\* a page with a relative link, kept as internal, and a link to another host, kept as
\* external
C17_Witness ==
    /\ lpc = "done"
    /\ Len(links) = 2
    /\ RelativeHref(anchors[1].href)
    /\ links[1].type = "internal"
    /\ url_netloc(anchors[2].href) \notin { << >>, url_netloc(base_url) }
    /\ links[2].type = "external"

\* an anchor with a javascript: href and good text, left out of the records
JavascriptAnchorDropped ==
    /\ lpc = "done"
    /\ Len(anchors) = 2
    /\ Contains(<< "j", "a", "v", "a", "s", "c", "r", "i", "p", "t", ":" >>,
                str_lower(anchors[1].href))
    /\ Len(detail_clean_text(anchors[1].text)) > 2
    /\ Len(links) = 1

\* the anchors that pass the tests on the href and on the text
AcceptedAnchors ==
    { i \in 1..Len(anchors) :
        /\ ~ExcludedHref(anchors[i].href)
        /\ LET text == detail_clean_text(anchors[i].text)
           IN  Len(text) >= 2 /\ text \notin SYMBOL_TEXTS }

\* C18: no two records of one call have the same resolved url, every accepted anchor
\* has its url among the records, and the record of a url has the text of the first
\* accepted anchor, in document order, that resolves to it.
C18_UniqueUrlFirstWins ==
    lpc = "done" =>
        /\ \A k, l \in 1..Len(links) : links[k].url = links[l].url => k = l
        /\ { links[k].url : k \in 1..Len(links) }
              = { urljoin(base_url, anchors[i].href) : i \in AcceptedAnchors }
        /\ \A k \in 1..Len(links) :
              LET same == { i \in AcceptedAnchors :
                              urljoin(base_url, anchors[i].href) = links[k].url }
                  first == CHOOSE i \in same : \A j \in same : i <= j
              IN  same # { } /\ links[k].text = detail_clean_text(anchors[first].text)

\* two accepted anchors with different hrefs and different texts that resolve to one
\* url: one record, with the text of the first
C18_Witness ==
    /\ lpc = "done"
    /\ AcceptedAnchors = { 1, 2 }
    /\ anchors[1].href # anchors[2].href
    /\ detail_clean_text(anchors[1].text) # detail_clean_text(anchors[2].text)
    /\ urljoin(base_url, anchors[1].href) = urljoin(base_url, anchors[2].href)
    /\ Len(links) = 1
    /\ links[1].text = detail_clean_text(anchors[1].text)

\* a text that qualifies as a summary: normalized, its length is strictly between 40
\* and 500 and it holds no generic-summary phrase
QualifiesAsSummary(text) ==
    LET n == run_clean_text(text)
    IN  /\ TextLen(n) > 40
        /\ TextLen(n) < 500
        /\ \A phrase \in GENERIC_SUMMARIES : ~Contains(phrase, str_lower(n.head))

\* element i of the candidate matches the selector of a class word, exactly or in part
MatchesWord(i, w, exact) ==
    IF exact THEN cand.elems[i].class = SUMMARY_WORDS[w]
    ELSE Contains(SUMMARY_WORDS[w], cand.elems[i].class)

\* the elements that are among the first two matches of one of the selectors
SelectorBased ==
    { i \in 1..Len(cand.elems) :
        \E w \in 1..Len(SUMMARY_WORDS), exact \in BOOLEAN :
            /\ MatchesWord(i, w, exact)
            /\ Cardinality({ j \in 1..(i - 1) : MatchesWord(j, w, exact) }) < 2 }

\* the first three paragraphs of the candidate
FirstParagraphs ==
    LET ps == { i \in 1..Len(cand.elems) : cand.elems[i].tag = "p" }
    IN  { i \in ps : Cardinality({ j \in ps : j < i }) < 3 }

\* C19: the summary chosen by scrape_static_article is the longest qualifying
\* selector-based candidate when there is one (of two of 60 and 120 characters, the
\* one of 120), otherwise the first qualifying paragraph among the first three
\* paragraphs, otherwise empty.
C19_SummarySelected ==
    (apc = "done" /\ strategy = "static" /\ Len(clean_text(cand.raw_title)) # 0) =>
        LET fromSelectors == { i \in SelectorBased : QualifiesAsSummary(cand.elems[i].text) }
            fromParagraphs == { i \in FirstParagraphs : QualifiesAsSummary(cand.elems[i].text) }
        IN  IF fromSelectors # { }
            THEN /\ \E i \in fromSelectors : sel_summary = run_clean_text(cand.elems[i].text)
                 /\ \A i \in fromSelectors :
                       TextLen(run_clean_text(cand.elems[i].text)) <= TextLen(sel_summary)
            ELSE IF fromParagraphs # { }
            THEN sel_summary =
                    run_clean_text(cand.elems[CHOOSE i \in fromParagraphs :
                                                 \A j \in fromParagraphs : i <= j].text)
            ELSE sel_summary = NoText

\* selector candidates of 60 and of 120 characters, in that order: the one of 120 is
\* the summary
C19_Witness ==
    /\ apc = "done"
    /\ strategy = "static"
    /\ Len(cand.elems) = 2
    /\ SelectorBased = { 1, 2 }
    /\ QualifiesAsSummary(cand.elems[1].text)
    /\ QualifiesAsSummary(cand.elems[2].text)
    /\ TextLen(run_clean_text(cand.elems[1].text)) = 60
    /\ TextLen(run_clean_text(cand.elems[2].text)) = 120
    /\ TextLen(sel_summary) = 120

\* no selector candidate qualifies and the fourth paragraph is the only good one: the
\* summary is empty
FourthParagraphIgnored ==
    /\ apc = "done"
    /\ strategy = "static"
    /\ Len(cand.elems) = 4
    /\ \A i \in 1..4 : cand.elems[i].tag = "p"
    /\ \A i \in 1..3 : ~QualifiesAsSummary(cand.elems[i].text)
    /\ QualifiesAsSummary(cand.elems[4].text)
    /\ sel_summary = NoText

\* C20: every record a strategy emits has a title of normalized length of 15 or more
\* and a summary of at most 400 characters.
C20_RecordBounds ==
    apc = "done" =>
        \A k \in 1..Len(emitted) :
            /\ emitted[k].by = strategy
            /\ emitted[k].title = clean_text(cand.raw_title)
            /\ Len(clean_text(emitted[k].title)) >= 15
            /\ TextLen(emitted[k].summary) <= 400

\* a record of the headline strategy whose summary of more than 400 characters was
\* cut to 400
C20_Witness ==
    /\ apc = "done"
    /\ strategy = "headlines"
    /\ Len(emitted) = 1
    /\ Len(emitted[1].title) >= 15
    /\ TextLen(sel_summary) > 400
    /\ TextLen(emitted[1].summary) = 400

\* a record of the static strategy whose summary of 499 characters was cut to 400
StaticSummaryCut ==
    /\ apc = "done"
    /\ strategy = "static"
    /\ Len(emitted) = 1
    /\ TextLen(sel_summary) = 499
    /\ TextLen(emitted[1].summary) = 400

\* --- C21 ---------------------------------------------------------------
\* C21: each of the three clean_text normalizers is idempotent: applying it to
\* its own result gives that result again, for every string - also one with
\* non-breaking spaces, the mis-encoded rupee sequence, or whitespace at its
\* ends.
C21_CleanTextIdempotent ==
    xpc = "twice" => cleaned_twice = cleaned_once

\* a string that starts with whitespace and holds a non-breaking space between
\* two words has been normalized, to something else, and normalized again
C21_Witness ==
    /\ xpc = "twice"
    /\ Len(raw_text) > 0
    /\ IsSpace(raw_text[1])
    /\ \E i \in 2..(Len(raw_text) - 1) :
          raw_text[i] = "NBSP" /\ ~IsSpace(raw_text[i - 1]) /\ ~IsSpace(raw_text[i + 1])
    /\ cleaned_once # raw_text
    /\ Contains(<< " " >>, cleaned_once)

\* the mis-encoded rupee sequence has been replaced, and the result normalized again
MojibakeCleanedTwice ==
    /\ xpc = "twice"
    /\ cleaner \in { "news_scraper", "scrapper" }
    /\ Contains(MOJIBAKE_RUPEE, raw_text)
    /\ Contains(<< "RUPEE" >>, cleaned_once)

\* --- C22 ---------------------------------------------------------------
\* C22: is_valid_article returns a boolean and never raises, whatever the title,
\* the summary and the link are: an empty title, a title of 15 or more
\* characters that is whitespace only, an absent summary, an absent link.
C22_NeverRaises ==
    ipc = "returned" => verdict \in { "True", "False" }

\* the other inputs the claim lists do return a boolean: the empty title, and a
\* title with no summary and no link
AbsentArgumentsReturn ==
    /\ ipc = "returned"
    /\ \/ Len(arg_title) = 0
       \/ Len(arg_summary) = 0 /\ Len(arg_link) = 0 /\ str_strip(arg_title) # << >>
    => verdict \in { "True", "False" }

\* a whitespace-only title of the minimum length or more has been classified
BlankTitleClassified ==
    /\ ipc = "returned"
    /\ Len(arg_title) >= MIN_TITLE_LEN
    /\ str_strip(arg_title) = << >>

\* --- C23 ---------------------------------------------------------------
\* C23: extract_structured_tables emits a table record only if the record has at
\* least one header or at least one row; a table element none of whose rows has
\* a cell (so with no header and no row with cells) gives no record, also when
\* it has a caption.
C23_EmittedTableNotEmpty ==
    tpc = "done" =>
        /\ \A i \in 1..Len(tables) : Len(tables[i].headers) # 0 \/ Len(tables[i].rows) # 0
        /\ (\A i \in 1..Len(AllRows(table)) : Len(AllRows(table)[i]) = 0) => tables = << >>

\* a table with a caption and a row, but no cell at all, has been processed and
\* gave no record
C23_Witness ==
    /\ tpc = "done"
    /\ table.caption.present /\ Len(detail_clean_text(table.caption.text)) # 0
    /\ Len(AllRows(table)) # 0
    /\ \A i \in 1..Len(AllRows(table)) : Len(AllRows(table)[i]) = 0
    /\ tables = << >>

\* a table is emitted for its headers alone
HeadersOnlyTableEmitted ==
    /\ tpc = "done"
    /\ Len(tables) = 1
    /\ Len(tables[1].headers) # 0 /\ Len(tables[1].rows) = 0

\* --- C24 ---------------------------------------------------------------
\* C24: the result of scrape_all_tabs always has a tab named 'IPO Detail' whose
\* URL is the base URL, whatever the navigation tabs are - also when a
\* navigation tab with another name links to the base URL - and no two tabs of
\* the result have the same URL.
C24_MainTabKept ==
    qpc = "done" =>
        /\ \E i \in 1..Len(scraped_tabs) :
              scraped_tabs[i].name = MAIN_TAB /\ tab_links[i] = << MAIN_TAB, tab_base >>
        /\ \A i, j \in 1..Len(tab_links) : tab_links[i][2] = tab_links[j][2] => i = j

\* the part of C24 that holds: after the de-duplication no two tabs share a URL,
\* and the base URL is the URL of one tab
UniqueTabUrls ==
    qpc = "done" =>
        /\ \A i, j \in 1..Len(tab_links) : tab_links[i][2] = tab_links[j][2] => i = j
        /\ \E i \in 1..Len(tab_links) : tab_links[i][2] = tab_base
        /\ Len(scraped_tabs) = Len(tab_links)
        /\ \A i \in 1..Len(scraped_tabs) : scraped_tabs[i].name = tab_links[i][1]

\* a navigation tab with another name links to the base URL, and the result has
\* no tab named 'IPO Detail'
MainTabDropped ==
    /\ qpc = "done"
    /\ \E i \in 1..Len(nav_tabs) :
          /\ detail_clean_text(nav_tabs[i].text) \notin { << >>, MAIN_TAB }
          /\ urljoin(tab_base, nav_tabs[i].href) = tab_base
    /\ \A i \in 1..Len(tab_links) : tab_links[i][1] # MAIN_TAB

\* two navigation tabs with the same URL were found and one of them was dropped
DuplicateTabDropped ==
    /\ qpc = "done"
    /\ Len(nav_tabs) = 2
    /\ Len(detail_clean_text(nav_tabs[1].text)) # 0
    /\ Len(detail_clean_text(nav_tabs[2].text)) # 0
    /\ nav_tabs[1].text # nav_tabs[2].text
    /\ urljoin(tab_base, nav_tabs[1].href) = urljoin(tab_base, nav_tabs[2].href)
    /\ urljoin(tab_base, nav_tabs[1].href) # tab_base
    /\ Len(tab_links) = 2

\* --- C25 ---------------------------------------------------------------
\* the positions, among the first max_articles items of the feed, of the items
\* with a non-empty link, in feed order
LinkedItems ==
    SelectSeq([ i \in 1..Len(FeedSlice(feed_items, max_articles)) |-> i ],
              LAMBDA i : ~LinkMissing(feed_items[i]))

\* C25: scrape_rss_feed returns exactly one record, in feed order, for each of
\* the first max_articles items of the feed that has a non-empty link.  When the
\* page of an item cannot be fetched the item still gives a record, with the
\* title, link, description and published date of the feed and empty content,
\* and the items after it are processed all the same.
C25_OneRecordPerLinkedItem ==
    rpc = "done" =>
        /\ Len(rss_articles) = Len(LinkedItems)
        /\ \A k \in 1..Len(LinkedItems) :
              LET item == feed_items[LinkedItems[k]]
                  rec  == rss_articles[k]
              IN  /\ rec.link = str_strip(item.link.text)
                  /\ rec.description = ChildText(item.description, << >>)
                  /\ rec.published_date = ChildText(item.pubDate, << >>)
                  /\ page_failed[LinkedItems[k]] =>
                        /\ rec.title = ChildText(item.title, NO_TITLE)
                        /\ rec.content = << >>

\* the page of the first item could not be fetched, a later item was scraped, an
\* item without link was passed over, and every linked item has its record
C25_Witness ==
    /\ rpc = "done"
    /\ Len(LinkedItems) >= 2
    /\ LinkedItems[1] = 1 /\ page_failed[1]
    /\ feed_items[1].title.present
    /\ rss_articles[1].title = str_strip(feed_items[1].title.text)
    /\ ~page_failed[LinkedItems[2]]
    /\ Len(rss_articles[2].content) # 0
    /\ Len(rss_articles) = 2
    /\ \E i \in 1..Len(FeedSlice(feed_items, max_articles)) : LinkMissing(feed_items[i])

\* a feed longer than max_articles: the items after the limit give no record
ItemsBeyondLimitIgnored ==
    /\ rpc = "done"
    /\ Len(feed_items) > max_articles
    /\ ~LinkMissing(feed_items[Len(feed_items)])
    /\ Len(rss_articles) = max_articles

\* --- C26 ---------------------------------------------------------------
\* C26: the number run_super_scraper prints as "Total unique articles from this
\* site" is the number of records of that site that were added to final_news:
\* those whose title key had not been seen before, in an earlier strategy of the
\* site or in an earlier site.
C26_UniqueCountIsAdded ==
    mpc = "next" => unique_count = Len(FromSite(final_news, site_idx))

\* what the printed number is: the number of records the strategies returned for
\* the site that have a non-empty title key, duplicates included
UniqueCountIsScraped ==
    mpc = "next" =>
        unique_count = Cardinality({ i \in 1..Len(site_articles) :
                                       Len(title_key(site_articles[i])) # 0 })

\* two strategies returned the same title for a site: one record is added, two
\* are counted
DuplicateCounted ==
    /\ mpc = "next"
    /\ Len(site_articles) = 2
    /\ title_key(site_articles[1]) = title_key(site_articles[2])
    /\ Len(FromSite(final_news, site_idx)) = 1
    /\ unique_count = 2

\* --- C27 ---------------------------------------------------------------
\* the i-th candidate of the pass, taken alone, passes is_valid_article
ValidCandidate(i) ==
    LET c == pass_cands[i]
        t == clean_text(c.raw_title)
    IN  /\ ~TitleSkipped(pass_by, t)
        /\ Emitted(pass_by, t, resolve_link(SOURCE_URL, c.href),
                   IF pass_by = "static" THEN select_summary(c.elems)
                   ELSE paragraph_summary(c.elems)) # << >>

\* C27: within one extraction pass, if some candidate titled T passes
\* is_valid_article then the pass returns a record titled T; an earlier
\* candidate with the same title that fails the classifier (one without link
\* and summary, say) does not suppress the later valid one.
C27_ValidCandidateEmitted ==
    ppc = "done" =>
        \A i \in 1..Len(pass_cands) :
            ValidCandidate(i) =>
                \E k \in 1..Len(pass_out) : pass_out[k].title = clean_text(pass_cands[i].raw_title)

\* what the passes do: the first candidate of each lowered title decides alone
\* whether a record with that title is returned
FirstCandidateDecides ==
    ppc = "done" =>
        \A i \in 1..Len(pass_cands) :
            LET t == clean_text(pass_cands[i].raw_title)
            IN  (\A j \in 1..(i - 1) :
                    str_lower(clean_text(pass_cands[j].raw_title)) # str_lower(t))
                => (ValidCandidate(i) <=> \E k \in 1..Len(pass_out) : pass_out[k].title = t)

\* a candidate without link and summary came first, a valid candidate with the
\* same title after it, and the pass returned nothing
ValidCandidateSuppressed ==
    /\ ppc = "done"
    /\ Len(pass_cands) = 2
    /\ clean_text(pass_cands[1].raw_title) = clean_text(pass_cands[2].raw_title)
    /\ pass_cands[1].href = << >> /\ pass_cands[1].elems = << >>
    /\ ~ValidCandidate(1)
    /\ ValidCandidate(2)
    /\ pass_out = << >>

\* --- C28 ---------------------------------------------------------------
\* C28: in the IPO scraper run download_csv returns True for a file type only
\* when a CSV produced by that download is at its csv_path.  A CSV file that was
\* there before the download started - main-ipo.csv of the Mainboard download
\* that went before, say - is never renamed to, or converted as, the file of the
\* other type, also when the wait for the download times out.
C28_OnlyOwnDownload ==
    /\ ipo_pc = "sme" /\ mainboard_success => download_dir[MAINBOARD_CSV].origin = "Mainboard"
    /\ ipo_pc = "convert" /\ sme_success => download_dir[SME_CSV].origin = "SME"
    /\ mainboard_json \in { "none", "Mainboard" }
    /\ sme_json \in { "none", "SME" }

\* in a directory with no CSV file at the start, the Mainboard export was
\* downloaded, the SME download timed out, and the Mainboard data was written
\* as the SME JSON while the Mainboard conversion found no file
MainboardConvertedAsSme ==
    /\ ipo_pc = "done"
    /\ mainboard_success /\ sme_success
    /\ ~download_dir[OTHER_CSV].present
    /\ mainboard_json = "none"
    /\ sme_json = "Mainboard"

\* --- C29 ---------------------------------------------------------------
\* the headings and paragraphs of the document in document order, the containers
\* left out
RECURSIVE LeavesOf(_)
LeavesOf(doc) ==
    IF Len(doc) = 0 THEN << >>
    ELSE (IF Len(doc[1].kids) = 0 THEN << Element(doc[1].name, doc[1].text) >> ELSE doc[1].kids)
         \o LeavesOf(Tail(doc))

\* the heading that most recently precedes the i-th leaf, << >> when there is none
HeadingBefore(leaves, i) ==
    LET hs == { j \in 1..(i - 1) : leaves[j].name \in HEADING_TAGS }
    IN  IF hs = { } THEN << >>
        ELSE detail_clean_text(leaves[CHOOSE j \in hs : \A k \in hs : k <= j].text)

\* the paragraphs of the document with the text t
ParagraphsWith(leaves, t) ==
    { i \in 1..Len(leaves) : leaves[i].name = << "p" >> /\ detail_clean_text(leaves[i].text) = t }

\* the entries of Section content that hold the text t
EntriesWith(t) ==
    { << k, j >> \in (1..Len(nested_sections)) \X (1..MaxTopNodes * (MaxKids + 1)) :
        /\ j <= Len(nested_sections[k].content)
        /\ Contains(t, nested_sections[k].content[j]) }

\* C29: in extract_content_sections the text of each block goes to Section
\* content at most once, and only to the Section of the heading that most
\* recently precedes the block: a paragraph inside a div is not added again
\* through the text of the div, and the text of a div never carries the
\* paragraphs of a later heading into an earlier Section.
C29_BlockContributedOnce ==
    npc = "done" =>
        LET leaves == LeavesOf(document)
        IN  \A i \in 1..Len(leaves) :
                leaves[i].name = << "p" >> =>
                    LET t == detail_clean_text(leaves[i].text)
                    IN  /\ Cardinality(EntriesWith(t)) <= Cardinality(ParagraphsWith(leaves, t))
                        /\ \A e \in EntriesWith(t) :
                              \E p \in ParagraphsWith(leaves, t) :
                                  nested_sections[e[1]].heading = HeadingBefore(leaves, p)

\* what holds without nesting: in a document of headings and paragraphs only,
\* each paragraph is added once, to the Section of the heading before it
FlatBlockContributedOnce ==
    npc = "done" /\ (\A n \in 1..Len(document) : Len(document[n].kids) = 0) =>
        LET leaves == LeavesOf(document)
        IN  \A i \in 1..Len(leaves) :
                leaves[i].name = << "p" >> =>
                    LET t == detail_clean_text(leaves[i].text)
                    IN  /\ Cardinality(EntriesWith(t)) <= Cardinality(ParagraphsWith(leaves, t))
                        /\ \A e \in EntriesWith(t) :
                              \E p \in ParagraphsWith(leaves, t) :
                                  nested_sections[e[1]].heading = HeadingBefore(leaves, p)

\* a heading followed by a div that holds one paragraph: the paragraph is in the
\* Section twice, once as the text of the div
ParagraphAddedTwice ==
    /\ npc = "done"
    /\ Len(document) = 2
    /\ document[1].name \in HEADING_TAGS
    /\ Len(document[2].kids) = 1 /\ document[2].kids[1].name = << "p" >>
    /\ Len(nested_sections) = 1
    /\ nested_sections[1].content =
          << detail_clean_text(document[2].kids[1].text),
             detail_clean_text(document[2].kids[1].text) >>

\* a heading followed by a div that holds a later heading and its paragraph: the
\* text of the div puts the paragraph in the Section of the earlier heading
LaterParagraphCarried ==
    /\ npc = "done"
    /\ Len(document) = 2
    /\ document[1].name \in HEADING_TAGS
    /\ Len(document[2].kids) = 2
    /\ document[2].kids[1].name \in HEADING_TAGS
    /\ document[2].kids[1].text # document[1].text
    /\ document[2].kids[2].name = << "p" >>
    /\ Len(nested_sections) = 2
    /\ nested_sections[1].heading = detail_clean_text(document[1].text)
    /\ Contains(detail_clean_text(document[2].kids[2].text), nested_sections[1].content[1])

\* --- C30 ---------------------------------------------------------------
\* s ends with Z or with an offset +HH:MM / -HH:MM
EndsWithZone(s) == CharAt(s, Len(s), "Z") \/ OffsetAt(s, Len(s) - 5)

\* C30: for every input string the result of clean_date has no whitespace at its
\* ends and ends neither with Z nor with an offset +HH:MM / -HH:MM, so that
\* clean_date of the result is the result.
C30_CleanDateNormalForm ==
    dpc = "done" =>
        /\ str_strip(date_clean) = date_clean
        /\ ~EndsWithZone(date_clean)
        /\ clean_date(date_clean) = date_clean

\* the part of C30 that holds: the result has no whitespace at its ends, and it is
\* the input without one trailing offset, then without one trailing Z, trimmed
CleanDateTrimmed ==
    dpc = "done" =>
        /\ str_strip(date_clean) = date_clean
        /\ date_clean = str_strip(StripZulu(StripOffset(date_str)))

\* a date whose offset is followed by a space: the offset is not at the end when
\* it is looked for, and is at the end of the result
OffsetLeftAfterTrim ==
    /\ dpc = "done"
    /\ Len(date_str) > 0 /\ date_str[Len(date_str)] = " "
    /\ OffsetAt(date_clean, Len(date_clean) - 5)
    /\ clean_date(date_clean) # date_clean

\* a date that ends with an offset and a Z: only the Z is removed
ZuluAfterOffset ==
    /\ dpc = "done"
    /\ Len(date_str) > 0 /\ date_str[Len(date_str)] = "Z"
    /\ OffsetAt(date_clean, Len(date_clean) - 5)

====
